---- MODULE Spec2Model ----
(***************************************************************************)
(* Preprocessing MPSI with VOLE: field arithmetic, random generator,       *)
(* OT-based VOLE sharing, solvers (PaXoS, Vandermonde), separated          *)
(* OPRF / OPPRF and the MPSI orchestration, as state machines.             *)
(***************************************************************************)
EXTENDS Integers, Sequences, FiniteSets, TLC

VARIABLES
    vole,       \* one VOLE session, OT-based or LPN-based: both roles
    slv,        \* one solver call: encode then decode
    prf,        \* one OPRF / OPPRF session between two roles on one channel
    psi,        \* the MPSI run: parties, channels, results
    mt          \* the multithreaded MPSI run: calls, per-peer threads, locks, queues

vars == <<vole, slv, prf, psi, mt>>

Idle == [phase |-> "idle"]

\* a vector as a sequence value
Vec(f) == f \o <<>>

----------------------------------------------------------------------------
(* Bounds of the model *)

\* width of a field element in bits: the field is GF(2^FieldBits)
FieldBits == 2
\* longest VOLE correlation of a VOLE session
MaxVoleLen == 2
\* number of seeds a random generator is started from
NumSeeds == 2

----------------------------------------------------------------------------
(* The finite field GF(2^FieldBits); elements are 0 .. 2^FieldBits - 1 *)

FieldSize == 2 ^ FieldBits
F == 0 .. (FieldSize - 1)

\* the reduction polynomial of the field, leading bit included
ReductionPoly ==
    CASE FieldBits = 1 -> 3
      [] FieldBits = 2 -> 7
      [] FieldBits = 3 -> 11
      [] FieldBits = 4 -> 19
      [] OTHER -> 37

RECURSIVE XorN(_, _)
XorN(a, b) ==
    IF a = 0 THEN b
    ELSE IF b = 0 THEN a
    ELSE ((a + b) % 2) + 2 * XorN(a \div 2, b \div 2)

\* addition of the field (characteristic 2: also subtraction)
FAdd(a, b) == XorN(a, b)
FSub(a, b) == XorN(a, b)

\* multiplication by the element "two" = from_u128(2)
FDouble(a) == IF 2 * a >= FieldSize THEN XorN(2 * a, ReductionPoly) ELSE 2 * a

RECURSIVE FMul(_, _)
FMul(a, b) ==
    IF b = 0 THEN 0
    ELSE XorN(IF b % 2 = 1 THEN a ELSE 0, FMul(FDouble(a), b \div 2))

FInv(a) == CHOOSE b \in F : FMul(a, b) = 1

\* the sum of the elements lo .. hi of a vector, halving the range
RECURSIVE FSumRange(_, _, _)
FSumRange(s, lo, hi) ==
    IF lo > hi THEN 0
    ELSE IF lo = hi THEN s[lo]
    ELSE FAdd(FSumRange(s, lo, (lo + hi) \div 2),
              FSumRange(s, ((lo + hi) \div 2) + 1, hi))
FSum(s) == FSumRange(Vec(s), 1, Len(s))

\* F::from_u128 and bit i of a u128
from_u128(a) == a % FieldSize
RECURSIVE BitOf(_, _)
BitOf(a, i) ==
    IF a = 0 THEN FALSE
    ELSE IF i = 0 THEN a % 2 = 1 ELSE BitOf(a \div 2, i - 1)

----------------------------------------------------------------------------
(* The random generator: a deterministic stream started from a seed.  The  *)
(* first draws may be fixed by a tape, so that a specification can range   *)
(* over every outcome of the draws a claim is about.                       *)

RngModulus == 32749

RngMix(seed, ctr) ==
    ( (((seed + 1) * 7919) % RngModulus)
      + ((((ctr + 1) * (ctr + 3)) % RngModulus) * (((seed + 2) * 31) % RngModulus))
      + (ctr * 104) ) % RngModulus

NewRng(seed, tape) == [seed |-> seed, ctr |-> 0, tape |-> tape]

RngWord(rng) ==
    IF rng.ctr < Len(rng.tape) THEN rng.tape[rng.ctr + 1]
    ELSE RngMix(rng.seed, rng.ctr) \div 8

RngNext(rng) == [rng EXCEPT !.ctr = @ + 1]
RngSkip(rng, k) == [rng EXCEPT !.ctr = @ + k]

\* rng.gen::<F>() and rng.gen::<u128>()
GenF(rng) == RngWord(rng) % FieldSize
GenU128(rng) == RngWord(rng) % FieldSize

\* the k-th draw from now on, as a field element (k >= 0)
GenFAt(rng, k) == GenF(RngSkip(rng, k))

----------------------------------------------------------------------------
(* OT-based VOLE sharing *)

\* const generic F_LENGTH: the number of OTs per element
F_LENGTH == FieldBits

\* delta_2pows[i] = delta * two^i (1-based here)
RECURSIVE delta_2pow(_, _)
delta_2pow(delta, i) == IF i = 0 THEN delta ELSE FDouble(delta_2pow(delta, i - 1))

\* OtVoleSender::receive up to the call of OT: delta, B and the OT inputs.
\* The draws are: delta, then for every element F_LENGTH pads rho.
OtVoleSenderPrepare(rng, m) ==
    LET delta == GenF(rng)
        rho(e, i) == GenFAt(rng, 1 + (e - 1) * F_LENGTH + i)
        b_vec == [e \in 1 .. m |->
                    FSum([i \in 1 .. F_LENGTH |-> rho(e, i - 1)])]
        inputs == [k \in 1 .. (m * F_LENGTH) |->
                    LET e == ((k - 1) \div F_LENGTH) + 1
                        i == (k - 1) % F_LENGTH
                    IN <<rho(e, i), FAdd(rho(e, i), delta_2pow(delta, i))>>]
    IN [delta |-> delta, b_vec |-> b_vec, inputs |-> inputs,
        rng |-> RngSkip(rng, 1 + m * F_LENGTH)]

\* the loop of OtVoleReceiver::receive: one u128 per iteration, a zero is
\* skipped by `continue`
RECURSIVE OtVoleReceiverSample(_, _, _, _)
OtVoleReceiverSample(rng, left, a_vec, inputs) ==
    IF left = 0 THEN [a_vec |-> a_vec, inputs |-> inputs, rng |-> rng]
    ELSE LET a == GenU128(rng) IN
         IF a = 0
         THEN OtVoleReceiverSample(RngNext(rng), left - 1, a_vec, inputs)
         ELSE OtVoleReceiverSample(RngNext(rng), left - 1,
                  Append(a_vec, from_u128(a)),
                  inputs \o [i \in 1 .. F_LENGTH |-> BitOf(a, i - 1)])

\* (mutant) the OT hands over the message that was not chosen
OtChoose_other(pairs, bits) ==
    [k \in 1 .. Len(bits) |-> IF bits[k] THEN pairs[k][1] ELSE pairs[k][2]]

\* the 1-of-2 OT: the receiver gets, per choice bit, the chosen message
OtChoose(pairs, bits) ==
    [k \in 1 .. Len(bits) |-> IF bits[k] THEN pairs[k][2] ELSE pairs[k][1]]

\* rhos.chunks(F_LENGTH), each chunk summed
Chunks(rhos) ==
    [e \in 1 .. ((Len(rhos) + F_LENGTH - 1) \div F_LENGTH) |->
        FSum([i \in 1 .. (IF e * F_LENGTH <= Len(rhos) THEN F_LENGTH
                          ELSE Len(rhos) - (e - 1) * F_LENGTH) |->
                rhos[(e - 1) * F_LENGTH + i]])]

\* OT::receive as the receiver sees it: the chosen messages when both sides
\* run the same number of OTs; when they disagree the library either fails
\* or hands over one message per choice bit
OtError == <<"error">>
OtReceive(pairs, bits) ==
    IF Len(bits) = Len(pairs) THEN {OtChoose(pairs, bits)}
    ELSE IF Len(bits) < Len(pairs) THEN {OtError, OtChoose(pairs, bits)}
    ELSE {OtError}

\* OtVoleReceiver::receive from the OT on: sum the chunks, assert the length
OtVoleReceiverFinish(a_vec, rhos, m) ==
    IF rhos = OtError
    THEN [status |-> "failed", a_vec |-> a_vec, c_vec |-> <<>>]
    ELSE LET c_vec == Chunks(rhos) IN
         IF Len(c_vec) # m
         THEN [status |-> "panicked", a_vec |-> a_vec, c_vec |-> c_vec]
         ELSE [status |-> "ok", a_vec |-> a_vec, c_vec |-> c_vec]

(* The VOLE session as a state machine *)

VoleLens == 1 .. MaxVoleLen

VoleInit ==
    /\ slv = Idle /\ prf = Idle /\ psi = Idle /\ mt = Idle
    /\ \E m \in VoleLens, seed \in 0 .. (NumSeeds - 1), d \in F,
         as \in [1 .. MaxVoleLen -> 0 .. (FieldSize - 1)] :
        vole = [phase |-> "start", m |-> m,
                srng |-> NewRng(seed, <<d>>),
                rrng |-> NewRng(seed + 1, [k \in 1 .. m |-> as[k]]),
                sender |-> "init", receiver |-> "init",
                delta |-> 0, b_vec |-> <<>>, ot |-> <<>>,
                a_vec |-> <<>>, c_vec |-> <<>>, choices |-> <<>>]

\* the VOLE sender samples delta and the pads and offers the OT messages
VoleSenderOffer ==
    /\ vole.phase = "start"
    /\ vole.sender = "init"
    /\ LET p == OtVoleSenderPrepare(vole.srng, vole.m) IN
       vole' = [vole EXCEPT !.sender = "offered", !.delta = p.delta,
                            !.b_vec = p.b_vec, !.ot = p.inputs, !.srng = p.rng]
    /\ UNCHANGED <<slv, prf, psi, mt>>

\* the VOLE receiver samples A and the choice bits
VoleReceiverSample ==
    /\ vole.phase = "start"
    /\ vole.receiver = "init"
    /\ LET s == OtVoleReceiverSample(vole.rrng, vole.m, <<>>, <<>>) IN
       vole' = [vole EXCEPT !.receiver = "sampled", !.a_vec = s.a_vec,
                            !.choices = s.inputs, !.rrng = s.rng]
    /\ UNCHANGED <<slv, prf, psi, mt>>

\* the OT runs; the receiver sums the chosen messages
VoleReceiverFinish ==
    /\ vole.phase = "start"
    /\ vole.receiver = "sampled"
    /\ vole.sender = "offered"
    /\ \E rhos \in OtReceive(vole.ot, vole.choices) :
         LET fin == OtVoleReceiverFinish(vole.a_vec, rhos, vole.m) IN
         vole' = [vole EXCEPT !.receiver = fin.status, !.c_vec = fin.c_vec]
    /\ UNCHANGED <<slv, prf, psi, mt>>

\* the VOLE sender returns (delta, B) once the OT is over
VoleSenderFinish ==
    /\ vole.phase = "start"
    /\ vole.sender = "offered"
    /\ vole.receiver \in {"ok", "failed", "panicked"}
    /\ vole' = [vole EXCEPT !.sender = IF Len(vole.choices) = Len(vole.ot)
                                           THEN "ok" ELSE "failed"]
    /\ UNCHANGED <<slv, prf, psi, mt>>

VoleNext ==
    \/ VoleSenderOffer
    \/ VoleReceiverSample
    \/ VoleReceiverFinish
    \/ VoleSenderFinish

SpecVole == VoleInit /\ [][VoleNext]_vars

VoleOver == vole.phase = "start" /\ vole.receiver \in {"ok", "failed", "panicked"}
VoleBothOk == vole.phase = "start" /\ vole.sender = "ok" /\ vole.receiver = "ok"

\* C7: when the VOLE sender and the VOLE receiver both complete a session for
\* the same m, C[i] = A[i] * Delta + B[i] for every i < m.
C7_VoleCorrelation ==
    VoleBothOk =>
        /\ Len(vole.a_vec) = vole.m /\ Len(vole.b_vec) = vole.m /\ Len(vole.c_vec) = vole.m
        /\ \A i \in 1 .. vole.m :
              vole.c_vec[i] = FAdd(FMul(vole.a_vec[i], vole.delta), vole.b_vec[i])

\* a completed session of the longest length in which Delta is not 0 and some
\* A[i] has more than one bit set
C7_Witness ==
    /\ VoleBothOk
    /\ vole.m = MaxVoleLen
    /\ vole.delta > 1
    /\ \E i \in 1 .. vole.m : vole.a_vec[i] = FieldSize - 1

\* C8: a sampled A[i] = 0 is rejected and resampled: whatever is sampled, the
\* receiver's session completes with exactly m values of A and of C, none of
\* the A[i] being 0.
C8_ZeroResampled ==
    VoleOver =>
        /\ vole.receiver = "ok"
        /\ Len(vole.a_vec) = vole.m /\ Len(vole.c_vec) = vole.m
        /\ \A i \in 1 .. Len(vole.a_vec) : vole.a_vec[i] # 0

----------------------------------------------------------------------------
(* Hashes.  SHA-256 keyed by a u64 is a family of functions of x indexed   *)
(* by the key: digit x of the key, in base HashBase, is the digest of x,   *)
(* so that the keys range over every function of the field elements.       *)

\* number of values a digest takes
HashBase == 8

KeySpace == HashBase ^ FieldSize

Digest(k, x) == (k \div (HashBase ^ x)) % HashBase

\* H_i: key x F -> [max]
hash2index(k, x, max) == Digest(k, x) % max

\* r: key x F -> {0, 1}^m, the first m bits of the digest
r(k, x, m) == Vec([i \in 1 .. m |-> BitOf(Digest(k, x), i - 1)])

\* rng.gen::<u64>()
GenU64(rng) == RngWord(rng) % KeySpace

----------------------------------------------------------------------------
(* Gaussian elimination over GF(2) with field-valued right-hand sides *)

add_rows_bits_only(matrix, k, i, j) ==
    [matrix EXCEPT ![k] =
        [values |-> Vec([c \in 1 .. Len(matrix[k].values) |->
                           IF c >= j THEN matrix[k].values[c] # matrix[i].values[c]
                           ELSE matrix[k].values[c]]),
         target |-> matrix[k].target]]

\* add_rows(matrix, k, i, j..m): row k ^= row i on the columns j..m (1-based
\* here: from column j on), target k += target i
add_rows(matrix, k, i, j) ==
    [matrix EXCEPT ![k] =
        [values |-> Vec([c \in 1 .. Len(matrix[k].values) |->
                           IF c >= j THEN matrix[k].values[c] # matrix[i].values[c]
                           ELSE matrix[k].values[c]]),
         target |-> FAdd(matrix[k].target, matrix[i].target)]]

\* the rows k # i with a 1 in column j get row i added, k ascending
RECURSIVE Eliminate(_, _, _, _)
Eliminate(matrix, i, j, k) ==
    IF k > Len(matrix) THEN matrix
    ELSE IF k # i /\ matrix[k].values[j]
         THEN Eliminate(add_rows(matrix, k, i, j), i, j, k + 1)
         ELSE Eliminate(matrix, i, j, k + 1)

SwapRows_copy(matrix, i, t) ==
    [matrix EXCEPT ![i] = matrix[t]]

SwapRows(matrix, i, t) ==
    [matrix EXCEPT ![i] = matrix[t], ![t] = matrix[i]]

RECURSIVE GaussLoop_search_all(_, _, _, _)
GaussLoop_search_all(matrix, i, j, first_indices) ==
    LET n == Len(matrix)
        m == Len(matrix[1].values)
    IN IF i > n THEN [some |-> TRUE, matrix |-> matrix, first_indices |-> first_indices]
       ELSE IF j > m THEN [some |-> FALSE, matrix |-> matrix, first_indices |-> first_indices]
       ELSE LET cand == {k \in 1 .. n : matrix[k].values[j]} IN
            IF cand = {}
            THEN GaussLoop_search_all(matrix, i, j + 1, first_indices)
            ELSE LET t == CHOOSE k \in cand : \A k2 \in cand : k <= k2
                     swapped == SwapRows(matrix, i, t)
                 IN GaussLoop_search_all(Eliminate(swapped, i, j, 1), i + 1, j + 1,
                                         Append(first_indices, j))

\* the while loop of gaussian_elimination; i, j are 1-based: i - 1 rows are
\* done, column j is looked at
RECURSIVE GaussLoop(_, _, _, _)
GaussLoop(matrix, i, j, first_indices) ==
    LET n == Len(matrix)
        m == Len(matrix[1].values)
    IN IF i > n THEN [some |-> TRUE, matrix |-> matrix, first_indices |-> first_indices]
       ELSE IF j > m THEN [some |-> FALSE, matrix |-> matrix, first_indices |-> first_indices]
       ELSE LET cand == {k \in i .. n : matrix[k].values[j]} IN
            IF cand = {}
            THEN GaussLoop(matrix, i, j + 1, first_indices)
            ELSE LET t == CHOOSE k \in cand : \A k2 \in cand : k <= k2
                     swapped == SwapRows(matrix, i, t)
                 IN GaussLoop(Eliminate(swapped, i, j, 1), i + 1, j + 1,
                              Append(first_indices, j))

\* check_matrix
check_matrix(matrix) ==
    /\ Len(matrix) # 0
    /\ Len(matrix) <= Len(matrix[1][1])
    /\ Len(matrix[1][1]) # 0
    /\ \A i \in 1 .. Len(matrix) : Len(matrix[i][1]) = Len(matrix[1][1])

\* gaussian_elimination: "err", "none" or "some" with the triples
\* (first index, values, target); matrix is a sequence of pairs <<bits, f>>
GaussEquations(out) ==
    IF ~out.some THEN [res |-> "none", equations |-> <<>>]
    ELSE [res |-> "some",
          equations |-> Vec([k \in 1 .. Len(out.matrix) |->
              <<out.first_indices[k], out.matrix[k].values, out.matrix[k].target>>])]

gaussian_elimination(matrix) ==
    IF ~check_matrix(matrix) THEN [res |-> "err", equations |-> <<>>]
    ELSE GaussEquations(GaussLoop(Vec([k \in 1 .. Len(matrix) |->
                                     [values |-> matrix[k][1], target |-> matrix[k][2]]]),
                                  1, 1, <<>>))


----------------------------------------------------------------------------
(* PaXoS solver *)

\* the slack lambda of r_size
Lambda == 40

\* n.next_power_of_two().trailing_zeros()
RECURSIVE NextPow2Log(_, _)
NextPow2Log(n, e) == IF 2 ^ e >= n THEN e ELSE NextPow2Log(n, e + 1)

\* usize arithmetic: a build without overflow checks wraps
UsizeBits == 10
UsizeModulus == 2 ^ UsizeBits
wrapping(x) == x % UsizeModulus

PaxosCalcParams_no_hundredth(n) ==
    [l_size |-> wrapping(2 * n), r_size |-> wrapping(NextPow2Log(n, 0) + Lambda)]

\* PaxosSolver::calc_params; next_power_of_two wraps to 0, which has
\* UsizeBits trailing zeros
PaxosCalcParams(n) ==
    [l_size |-> wrapping(wrapping(2 * n) + (n \div 100)),
     r_size |-> wrapping(NextPow2Log(n, 0) + Lambda)]

\* the arithmetic of calc_params leaves usize: a build with overflow checks
\* panics
PaxosCalcOverflows(n) ==
    \/ 2 * n >= UsizeModulus
    \/ 2 * n + (n \div 100) >= UsizeModulus
    \/ 2 ^ NextPow2Log(n, 0) >= UsizeModulus

PaxosCodeLength(params) == wrapping(params.l_size + params.r_size)

\* gen_aux: three u64 draws
PaxosGenAux(rng) ==
    [aux |-> <<GenU64(rng), GenU64(RngSkip(rng, 1)), GenU64(RngSkip(rng, 2))>>,
     rng |-> RngSkip(rng, 3)]

\* ConstraintParts
CP_zero(r_size) == [v |-> Vec([i \in 1 .. r_size |-> FALSE]), f |-> 0]
CP_add_other_or(self, other) ==
    [v |-> Vec([i \in 1 .. Len(self.v) |-> self.v[i] \/ other.v[i]]),
     f |-> FAdd(self.f, other.f)]

CP_add_other_keep_f(self, other) ==
    [v |-> Vec([i \in 1 .. Len(self.v) |-> self.v[i] # other.v[i]]), f |-> self.f]

CP_add_other(self, other) ==
    [v |-> Vec([i \in 1 .. Len(self.v) |-> self.v[i] # other.v[i]]),
     f |-> FAdd(self.f, other.f)]

NotVisited == "NotVisited"
VisitedOnce == "VisitedOnce"
VisitedTwice == "VisitedTwice"
FindConstraints == "FindConstraints"
CalcVecL == "CalcVecL"

\* Edge::is_visited and Node::is_visited
is_visited(visit_status, mode) ==
    IF mode = FindConstraints THEN visit_status # NotVisited
    ELSE visit_status = VisitedTwice

\* construct_cuckoo_graph: nodes are created on first use (`order`), every
\* point adds a direction at node i towards j and one at node j towards i;
\* the per-node vectors hold node i at index i + 1
RECURSIVE CuckooAdd(_, _, _, _, _)
CuckooAdd(points, keys, m, k, g) ==
    IF k > Len(points) THEN g
    ELSE LET x == points[k][1]
             i == hash2index(keys[1], x, m)
             j == hash2index(keys[2], x, m)
             o1 == IF \E q \in 1 .. Len(g.order) : g.order[q] = i
                   THEN g.order ELSE Append(g.order, i)
             o2 == IF \E q \in 1 .. Len(o1) : o1[q] = j THEN o1 ELSE Append(o1, j)
             d1 == [g.dirs EXCEPT ![i + 1] = Append(@, [to |-> j, edge |-> k])]
             d2 == [d1 EXCEPT ![j + 1] = Append(@, [to |-> i, edge |-> k])]
         IN CuckooAdd(points, keys, m, k + 1, [order |-> o2, dirs |-> d2])

construct_cuckoo_graph(points, keys, params) ==
    LET g == CuckooAdd(points, keys, params.l_size, 1,
                       [order |-> <<>>, dirs |-> Vec([i \in 1 .. params.l_size |-> <<>>])])
    IN [order |-> g.order, dirs |-> g.dirs, points |-> points,
        nvisit |-> Vec([i \in 1 .. params.l_size |-> NotVisited]),
        accumulator |-> Vec([i \in 1 .. params.l_size |-> CP_zero(params.r_size)]),
        evisit |-> Vec([k \in 1 .. Len(points) |-> NotVisited]),
        back_edge |-> Vec([k \in 1 .. Len(points) |-> FALSE]),
        panicked |-> FALSE]

\* Node::next_dirs: the directions whose edge is neither visited (in this
\* mode) nor a back edge, as they are when the call is made
RECURSIVE FilterDirs(_, _, _)
FilterDirs(g, dirs, mode) ==
    IF dirs = <<>> THEN <<>>
    ELSE IF is_visited(g.evisit[Head(dirs).edge], mode) \/ g.back_edge[Head(dirs).edge]
         THEN FilterDirs(g, Tail(dirs), mode)
         ELSE <<Head(dirs)>> \o FilterDirs(g, Tail(dirs), mode)

next_dirs_back_edges_too(g, node, mode) ==
    SelectSeq(g.dirs[node + 1], LAMBDA d : ~is_visited(g.evisit[d.edge], mode))

next_dirs(g, node, mode) == FilterDirs(g, g.dirs[node + 1], mode)

\* the test that skips a direction whose edge was visited since next_dirs
\* was collected: the second direction of a self-loop
EdgeAlreadyVisited_never(g, next_edge) == FALSE

EdgeAlreadyVisited(g, next_edge) == is_visited(g.evisit[next_edge], FindConstraints)

\* dfs_tofc_rec and the loop over next_dirs in it; `result` is the list of
\* constraints found so far
RECURSIVE dfs_tofc_rec(_, _, _, _, _, _)
RECURSIVE dfs_tofc_loop(_, _, _, _, _, _, _)

dfs_tofc_rec(g, node, total, k3, r_size, result) ==
    IF is_visited(g.nvisit[node + 1], FindConstraints)
    THEN [res |-> "BackEdge", cp |-> g.accumulator[node + 1], g |-> g, result |-> result]
    ELSE LET g1 == [g EXCEPT !.nvisit[node + 1] = VisitedOnce, !.accumulator[node + 1] = total]
             out == dfs_tofc_loop(g1, next_dirs(g1, node, FindConstraints), total,
                                  k3, r_size, result, 1)
         IN [res |-> "NoProblem", cp |-> CP_zero(r_size), g |-> out.g, result |-> out.result]

dfs_tofc_loop(g, dirs, total, k3, r_size, result, idx) ==
    IF idx > Len(dirs) THEN [g |-> g, result |-> result]
    ELSE LET next_node == dirs[idx].to
             next_edge == dirs[idx].edge
         IN IF EdgeAlreadyVisited(g, next_edge)
            THEN dfs_tofc_loop(g, dirs, total, k3, r_size, result, idx + 1)
            ELSE LET g1 == [g EXCEPT !.evisit[next_edge] = VisitedOnce]
                     cp == [v |-> r(k3, g.points[next_edge][1], r_size),
                            f |-> g.points[next_edge][2]]
                     next_total == CP_add_other(total, cp)
                     sub == dfs_tofc_rec(g1, next_node, next_total, k3, r_size, result)
                 IN IF sub.res = "BackEdge"
                    THEN LET c == CP_add_other(next_total, sub.cp) IN
                         dfs_tofc_loop([sub.g EXCEPT !.back_edge[next_edge] = TRUE],
                                       dirs, total, k3, r_size,
                                       Append(sub.result, <<c.v, c.f>>), idx + 1)
                    ELSE dfs_tofc_loop(sub.g, dirs, total, k3, r_size, sub.result, idx + 1)

\* dfs_to_find_constraints: every node not yet visited is a root
RECURSIVE dfs_to_find_constraints_from(_, _, _, _, _, _)
dfs_to_find_constraints_from(g, q, k3, r_size, constraints, new_graph) ==
    IF q > Len(g.order) THEN [constraints |-> constraints, graph |-> g, roots |-> new_graph]
    ELSE IF is_visited(g.nvisit[g.order[q] + 1], FindConstraints)
         THEN dfs_to_find_constraints_from(g, q + 1, k3, r_size, constraints, new_graph)
         ELSE LET out == dfs_tofc_rec(g, g.order[q], CP_zero(r_size), k3, r_size, constraints)
              IN dfs_to_find_constraints_from(out.g, q + 1, k3, r_size, out.result,
                                              Append(new_graph, g.order[q]))

dfs_to_find_constraints(g, keys, params) ==
    dfs_to_find_constraints_from(g, 1, keys[3], params.r_size, <<>>, <<>>)

\* calc_r_inner_product
SumWhereSet(bits, vec_r) ==
    FSum([i \in 1 .. Len(bits) |-> IF bits[i] THEN vec_r[i] ELSE 0])

calc_r_inner_product(x, vec_r, k3, r_size) == SumWhereSet(r(k3, x, r_size), vec_r)

RECURSIVE adjust_vec_r_all_bits(_, _, _)
adjust_vec_r_all_bits(equations, vec_r, q) ==
    IF q > Len(equations) THEN vec_r
    ELSE LET i == equations[q][1]
             bits == equations[q][2]
             val == equations[q][3]
             sum == FAdd(val, FSum([j \in 1 .. Len(bits) |->
                                     IF bits[j] THEN vec_r[j] ELSE 0]))
         IN adjust_vec_r_all_bits(equations, [vec_r EXCEPT ![i] = sum], q + 1)

\* adjust_vec_r: the equations in order, each sets vec_r at its first index
RECURSIVE adjust_vec_r(_, _, _)
adjust_vec_r(equations, vec_r, q) ==
    IF q > Len(equations) THEN vec_r
    ELSE LET i == equations[q][1]
             bits == equations[q][2]
             val == equations[q][3]
             sum == FAdd(val, FSum([j \in 1 .. Len(bits) |->
                                     IF j # i /\ bits[j] THEN vec_r[j] ELSE 0]))
         IN adjust_vec_r(equations, [vec_r EXCEPT ![i] = sum], q + 1)

\* dfs_tocvl_rec and its loop; vec_l is 1-based: vec_l[v + 1] is the cell of
\* node v
RECURSIVE dfs_tocvl_rec(_, _, _, _, _, _)
RECURSIVE dfs_tocvl_loop(_, _, _, _, _, _, _, _)

dfs_tocvl_rec(g, node, k3, r_size, vec_r, vec_l) ==
    IF is_visited(g.nvisit[node + 1], CalcVecL)
    THEN [g |-> [g EXCEPT !.panicked = TRUE], vec_l |-> vec_l]
    ELSE LET g1 == [g EXCEPT !.nvisit[node + 1] = VisitedTwice] IN
         dfs_tocvl_loop(g1, next_dirs(g1, node, CalcVecL), node, k3, r_size, vec_r, vec_l, 1)

dfs_tocvl_loop(g, dirs, u, k3, r_size, vec_r, vec_l, idx) ==
    IF idx > Len(dirs) \/ g.panicked THEN [g |-> g, vec_l |-> vec_l]
    ELSE LET next_edge == dirs[idx].edge
             v == dirs[idx].to
         IN IF is_visited(g.evisit[next_edge], CalcVecL)
            THEN dfs_tocvl_loop(g, dirs, u, k3, r_size, vec_r, vec_l, idx + 1)
            ELSE LET g1 == [g EXCEPT !.evisit[next_edge] = VisitedTwice]
                     x == g.points[next_edge][1]
                     inner_product == calc_r_inner_product(x, vec_r, k3, r_size)
                     y == g.points[next_edge][2]
                     l1 == [vec_l EXCEPT ![v + 1] =
                              FAdd(FAdd(vec_l[u + 1], inner_product), y)]
                     sub == dfs_tocvl_rec(g1, v, k3, r_size, vec_r, l1)
                 IN dfs_tocvl_loop(sub.g, dirs, u, k3, r_size, vec_r, sub.vec_l, idx + 1)

\* dfs_to_calc_vec_l over the roots the first DFS returned
RECURSIVE dfs_to_calc_vec_l(_, _, _, _, _, _, _)
dfs_to_calc_vec_l(g, roots, q, k3, r_size, vec_r, vec_l) ==
    IF q > Len(roots) \/ g.panicked THEN [g |-> g, vec_l |-> vec_l]
    ELSE IF is_visited(g.nvisit[roots[q] + 1], CalcVecL)
         THEN dfs_to_calc_vec_l(g, roots, q + 1, k3, r_size, vec_r, vec_l)
         ELSE LET out == dfs_tocvl_rec(g, roots[q], k3, r_size, vec_r, vec_l)
              IN dfs_to_calc_vec_l(out.g, roots, q + 1, k3, r_size, vec_r, out.vec_l)

\* result = vec_l; result.extend(vec_r)
ExtendVec(vec_l, vec_r, params) ==
    Vec([q \in 1 .. PaxosCodeLength(params) |->
           IF q <= params.l_size THEN vec_l[q] ELSE vec_r[q - params.l_size]])

\* PaxosSolver::encode from the second DFS on: the cells of vec_l, then
\* result = vec_l extended by vec_r
PaxosFill(found, vec_r, vec_l, rng, aux, params) ==
    LET filled == dfs_to_calc_vec_l(found.graph, found.roots, 1, aux[3],
                                    params.r_size, vec_r, vec_l)
    IN IF filled.g.panicked
       THEN [res |-> "panic", why |-> "Unreachable", p |-> <<>>, rng |-> rng]
       ELSE [res |-> "ok", why |-> "", p |-> ExtendVec(filled.vec_l, vec_r, params),
             rng |-> rng]

\* PaxosSolver::encode from the constraints on: the two failures and the
\* adjustment of vec_r to the solved equations
PaxosSolve(found, solved, vec_r, vec_l, rng, aux, params) ==
    IF Len(found.constraints) > params.r_size
    THEN [res |-> "err", why |-> "too many constraints", p |-> <<>>, rng |-> rng]
    ELSE IF Len(found.constraints) > 0 /\ solved.res # "some"
    THEN [res |-> "err", why |-> "failed to solve linear equations", p |-> <<>>, rng |-> rng]
    ELSE PaxosFill(found,
                   IF Len(found.constraints) > 0
                   THEN adjust_vec_r(solved.equations, vec_r, 1) ELSE vec_r,
                   vec_l, rng, aux, params)

\* PaxosSolver::encode: res is "ok" (with the code vector p), "err" or
\* "panic"; rng is the generator after the draws of vec_l and vec_r
PaxosEncode(rng, points, aux, params) ==
    LET found == dfs_to_find_constraints(construct_cuckoo_graph(points, aux, params),
                                         aux, params)
    IN PaxosSolve(found, gaussian_elimination(found.constraints),
                  Vec([i \in 1 .. params.r_size |-> GenFAt(rng, params.l_size + i - 1)]),
                  Vec([i \in 1 .. params.l_size |-> GenFAt(rng, i - 1)]),
                  RngSkip(rng, params.l_size + params.r_size), aux, params)

\* PaxosSolver::decode
PaxosDecode(p, x, aux, params) ==
    LET i == hash2index(aux[1], x, params.l_size)
        j == hash2index(aux[2], x, params.l_size)
        vec_r == Vec([q \in 1 .. params.r_size |-> p[params.l_size + q]])
    IN FAdd(FAdd(p[i + 1], p[j + 1]), calc_r_inner_product(x, vec_r, aux[3], params.r_size))


----------------------------------------------------------------------------
(* Vandermonde solver *)

\* poly * (X - a), coefficients from the constant upwards
PolyMulLinear(poly, a) ==
    Vec([i \in 1 .. (Len(poly) + 1) |->
           FAdd(IF i > 1 THEN poly[i - 1] ELSE 0,
                IF i <= Len(poly) THEN FMul(a, poly[i]) ELSE 0)])

\* the product of (X - x_j) over j # i, and of (x_i - x_j) over j # i
RECURSIVE LagrangeNumerator(_, _, _)
LagrangeNumerator(points, i, j) ==
    IF j = 0 THEN <<1>>
    ELSE IF j = i THEN LagrangeNumerator(points, i, j - 1)
    ELSE PolyMulLinear(LagrangeNumerator(points, i, j - 1), points[j][1])

RECURSIVE LagrangeDenominator(_, _, _)
LagrangeDenominator(points, i, j) ==
    IF j = 0 THEN 1
    ELSE IF j = i THEN LagrangeDenominator(points, i, j - 1)
    ELSE FMul(LagrangeDenominator(points, i, j - 1), FSub(points[i][1], points[j][1]))

\* Polynomial::interpolate: the polynomial of degree < n through the points
\* (Lagrange form), as <<constant>> \o coefficients
interpolate(points) ==
    LET n == Len(points)
        term(i) == LET num == LagrangeNumerator(points, i, n)
                       scale == FMul(points[i][2], FInv(LagrangeDenominator(points, i, n)))
                   IN [c \in 1 .. n |-> FMul(scale, num[c])]
    IN Vec([c \in 1 .. n |-> FSum([i \in 1 .. n |-> term(i)[c]])])

VandelmondeEncode(rng, points) ==
    [res |-> "ok", why |-> "", p |-> interpolate(points), rng |-> rng]

\* VandelmondeSolver::decode: sum += coeff * temp; temp *= x
RECURSIVE VandelmondeDecodeFrom(_, _, _, _, _)
VandelmondeDecodeFrom(p, x, q, temp, sum) ==
    IF q > Len(p) THEN sum
    ELSE VandelmondeDecodeFrom(p, x, q + 1, FMul(temp, x), FAdd(sum, FMul(p[q], temp)))

VandelmondeDecode_sum_from_one(p, x) == VandelmondeDecodeFrom(p, x, 1, 1, 1)

VandelmondeDecode(p, x) == VandelmondeDecodeFrom(p, x, 1, 1, 0)

----------------------------------------------------------------------------
(* The Solver trait, by solver kind *)

Paxos == "Paxos"
Vandelmonde == "Vandelmonde"
SolverKinds == {Paxos, Vandelmonde}

calc_params(kind, n) ==
    IF kind = Paxos THEN PaxosCalcParams(n) ELSE [l_size |-> n, r_size |-> 0]

code_length(kind, params) ==
    IF kind = Paxos THEN PaxosCodeLength(params) ELSE params.l_size

gen_aux(kind, rng) ==
    IF kind = Paxos THEN PaxosGenAux(rng) ELSE [aux |-> <<>>, rng |-> rng]

encode(kind, rng, points, aux, params) ==
    IF kind = Paxos THEN PaxosEncode(rng, points, aux, params)
    ELSE VandelmondeEncode(rng, points)

decode(kind, p, x, aux, params) ==
    IF kind = Paxos THEN PaxosDecode(p, x, aux, params) ELSE VandelmondeDecode(p, x)


----------------------------------------------------------------------------
(* Solver sessions: gen_aux, encode, then decode at every encoded point *)

MaxPoints == 3
RDigests == 3
YValues == {1, FieldSize - 1}

\* a key whose digest at xs[i] is digests[i]
RECURSIVE KeyWithDigestsFrom(_, _, _)
KeyWithDigestsFrom(xs, digests, i) ==
    IF i > Len(xs) THEN 0
    ELSE digests[i] * (HashBase ^ xs[i]) + KeyWithDigestsFrom(xs, digests, i + 1)

KeyWithDigests(xs, digests) == KeyWithDigestsFrom(xs, digests, 1)

\* node labels in order of first use: a new label is the least unused one
FirstUseOrder(h1, h2, n) ==
    LET labels == [q \in 1 .. (2 * n) |-> IF q % 2 = 1 THEN h1[(q + 1) \div 2]
                                          ELSE h2[q \div 2]]
    IN \A q \in 1 .. (2 * n) :
          \/ \E q0 \in 1 .. (q - 1) : labels[q0] = labels[q]
          \/ labels[q] = Cardinality({labels[q0] : q0 \in 1 .. (q - 1)})

PaxosXs(n) == [i \in 1 .. n |-> i]

InjectiveSeqs(n) == {xs \in [1 .. n -> F] : \A i, j \in 1 .. n : i # j => xs[i] # xs[j]}

SlvStart(kind, points, rng) ==
    [phase |-> "start", kind |-> kind, points |-> points,
     params |-> calc_params(kind, Len(points)), rng |-> rng,
     aux |-> <<>>, res |-> "", p |-> <<>>, outs |-> <<>>]

SlvInit ==
    /\ vole = Idle
    /\ prf = Idle
    /\ psi = Idle
    /\ mt = Idle
    /\ \E n \in 1 .. MaxPoints :
          \/ \E h1, h2 \in [1 .. n -> 0 .. (2 * n - 1)] :
                /\ FirstUseOrder(h1, h2, n)
                /\ \E rd \in [1 .. n -> 0 .. (RDigests - 1)], ys \in [1 .. n -> YValues] :
                   slv = SlvStart(Paxos, [i \in 1 .. n |-> <<PaxosXs(n)[i], ys[i]>>],
                                  NewRng(n % NumSeeds,
                                         <<KeyWithDigests(PaxosXs(n), h1),
                                           KeyWithDigests(PaxosXs(n), h2),
                                           KeyWithDigests(PaxosXs(n), rd)>>))
          \/ \E xs \in InjectiveSeqs(n), ys \in [1 .. n -> F] :
                slv = SlvStart(Vandelmonde, [i \in 1 .. n |-> <<xs[i], ys[i]>>],
                               NewRng(0, <<>>))

SlvGenAux ==
    /\ slv.phase = "start"
    /\ \E g \in {gen_aux(slv.kind, slv.rng)} :
       slv' = [slv EXCEPT !.phase = "aux", !.aux = g.aux, !.rng = g.rng]
    /\ UNCHANGED <<vole, prf, psi, mt>>

SlvEncode ==
    /\ slv.phase = "aux"
    /\ \E e \in {encode(slv.kind, slv.rng, slv.points, slv.aux, slv.params)} :
       slv' = [slv EXCEPT !.phase = "encoded", !.res = e.res, !.p = e.p, !.rng = e.rng]
    /\ UNCHANGED <<vole, prf, psi, mt>>

SlvDecode ==
    /\ slv.phase = "encoded"
    /\ slv.res = "ok"
    /\ Len(slv.outs) < Len(slv.points)
    /\ LET x == slv.points[Len(slv.outs) + 1][1] IN
       slv' = [slv EXCEPT !.outs = Append(@, decode(slv.kind, slv.p, x, slv.aux, slv.params))]
    /\ UNCHANGED <<vole, prf, psi, mt>>

SlvNext == SlvGenAux \/ SlvEncode \/ SlvDecode

SpecSolver == SlvInit /\ [][SlvNext]_vars

\* C6: whenever encode returned Ok(P) for points with pairwise distinct x,
\* decode(P, x, aux, params) is y for every encoded point (x, y), for the
\* PaXoS solver on every cuckoo graph and for the Vandermonde solver
C6_SolverRoundTrip ==
    slv.phase = "encoded" =>
        \A k \in 1 .. Len(slv.outs) : slv.outs[k] = slv.points[k][2]


SlvH1(k) == hash2index(slv.aux[1], slv.points[k][1], slv.params.l_size)
SlvH2(k) == hash2index(slv.aux[2], slv.points[k][1], slv.params.l_size)

\* a PaXoS code vector for a self-loop and a pair of parallel edges in another
\* component was built and decoded at all its points
C6_Witness ==
    /\ slv.phase = "encoded"
    /\ slv.kind = Paxos
    /\ slv.res = "ok"
    /\ Len(slv.points) = MaxPoints
    /\ Len(slv.outs) = MaxPoints
    /\ SlvH1(1) = SlvH2(1)
    /\ SlvH1(2) # SlvH2(2)
    /\ SlvH1(2) # SlvH1(1)
    /\ SlvH2(2) # SlvH1(1)
    /\ SlvH1(3) = SlvH2(2)
    /\ SlvH2(3) = SlvH1(2)
    /\ slv.points[2][2] # slv.points[3][2]

\* the first DFS of encode on the session's points
SlvFound ==
    dfs_to_find_constraints(construct_cuckoo_graph(slv.points, slv.aux, slv.params),
                            slv.aux, slv.params)

SlvSelfLoops == {k \in 1 .. Len(slv.points) : SlvH1(k) = SlvH2(k)}

SlvRow(k) == <<r(slv.aux[3], slv.points[k][1], slv.params.r_size), slv.points[k][2]>>

\* C20: PaXoS self-loops.  For every input x with h1(x) = h2(x) the edge of x
\* is visited once and becomes a back edge; every back edge contributes one
\* constraint, and that of x has the bit row r(x) and the value y.  Whenever
\* encode succeeds, decode returns the stored y for that x.
C20_SelfLoop ==
    (slv.phase = "encoded" /\ slv.kind = Paxos) =>
        \A found \in {SlvFound} :
           /\ Len(found.constraints)
                 = Cardinality({k \in 1 .. Len(slv.points) : found.graph.back_edge[k]})
           /\ \A k \in SlvSelfLoops :
                 /\ found.graph.evisit[k] = VisitedOnce
                 /\ found.graph.back_edge[k]
                 /\ Cardinality({q \in 1 .. Len(found.constraints) :
                                    found.constraints[q] = SlvRow(k)})
                       >= Cardinality({k2 \in SlvSelfLoops : SlvRow(k2) = SlvRow(k)})
                 /\ (slv.res = "ok" /\ k <= Len(slv.outs)) => slv.outs[k] = slv.points[k][2]
           /\ (\A k \in 1 .. Len(slv.points) : found.graph.back_edge[k] => k \in SlvSelfLoops)
                 => \A q \in 1 .. Len(found.constraints) :
                       \E k \in SlvSelfLoops : found.constraints[q] = SlvRow(k)

\* a code vector was built and decoded for a self-loop hanging off a tree
\* edge, reached by the DFS with a non-zero total
C20_Witness ==
    /\ slv.phase = "encoded"
    /\ slv.kind = Paxos
    /\ slv.res = "ok"
    /\ Len(slv.points) = 2
    /\ Len(slv.outs) = 2
    /\ SlvH1(1) # SlvH2(1)
    /\ SlvH1(2) = SlvH2(2)
    /\ SlvH1(2) = SlvH2(1)
    /\ \E q \in 1 .. slv.params.r_size : r(slv.aux[3], slv.points[2][1], slv.params.r_size)[q]
    /\ slv.outs[2] = slv.points[2][2]


----------------------------------------------------------------------------
(* Two calls of encode, each with its own arguments; whatever a call could  *)
(* read besides its arguments is the thread's own generator                 *)

MaxDetPoints == 2

\* the generator encode draws vec_l and vec_r from
DrawsFrom_thread_rng(rng, ambient) == ambient

DrawsFrom(rng, ambient) == rng

Reversed(points) == [i \in 1 .. Len(points) |-> points[Len(points) + 1 - i]]

\* the arguments of the second call: those of the first, or one of them
\* changed
Varied(in, how) ==
    IF how = "rng" THEN [in EXCEPT !.rng = RngSkip(in.rng, 1)]
    ELSE IF how = "order" THEN [in EXCEPT !.points = Vec(Reversed(in.points))]
    ELSE IF how = "aux" /\ in.kind = Paxos
    THEN [in EXCEPT !.aux = <<in.aux[2], in.aux[1], in.aux[3]>>]
    ELSE in

DetArgs(kind, points, rng) ==
    [kind |-> kind, points |-> Vec(points), params |-> calc_params(kind, Len(points)),
     aux |-> gen_aux(kind, rng).aux, rng |-> gen_aux(kind, rng).rng]

DetStart(in, how) ==
    [phase |-> "det", in |-> <<in, Varied(in, how)>>,
     out |-> <<[res |-> "none", p |-> <<>>], [res |-> "none", p |-> <<>>]>>]

DetInit ==
    /\ vole = Idle
    /\ prf = Idle
    /\ psi = Idle
    /\ mt = Idle
    /\ \E n \in 1 .. MaxDetPoints, how \in {"same", "rng", "order", "aux"} :
          \/ \E h1, h2 \in [1 .. n -> 0 .. (2 * n - 1)] :
                /\ FirstUseOrder(h1, h2, n)
                /\ \E rd \in [1 .. n -> 0 .. (RDigests - 1)], ys \in [1 .. n -> YValues] :
                   slv = DetStart(DetArgs(Paxos, [i \in 1 .. n |-> <<PaxosXs(n)[i], ys[i]>>],
                                          NewRng(n % NumSeeds,
                                                 <<KeyWithDigests(PaxosXs(n), h1),
                                                   KeyWithDigests(PaxosXs(n), h2),
                                                   KeyWithDigests(PaxosXs(n), rd)>>)), how)
          \/ \E xs \in InjectiveSeqs(n), ys \in [1 .. n -> F] :
                slv = DetStart(DetArgs(Vandelmonde, [i \in 1 .. n |-> <<xs[i], ys[i]>>],
                                       NewRng(0, <<>>)), how)

\* call c of encode, in a thread whose own generator is in any state
DetEncode(c) ==
    /\ slv.phase = "det"
    /\ slv.out[c].res = "none"
    /\ \E seed \in 0 .. (NumSeeds - 1) :
          \E e \in {encode(slv.in[c].kind, DrawsFrom(slv.in[c].rng, NewRng(seed + NumSeeds, <<>>)),
                           slv.in[c].points, slv.in[c].aux, slv.in[c].params)} :
             slv' = [slv EXCEPT !.out[c] = [res |-> e.res, p |-> e.p]]
    /\ UNCHANGED <<vole, prf, psi, mt>>

DetNext == \E c \in 1 .. 2 : DetEncode(c)

SpecDet == DetInit /\ [][DetNext]_vars

DetBothDone == slv.phase = "det" /\ slv.out[1].res # "none" /\ slv.out[2].res # "none"

----------------------------------------------------------------------------
(* Field hashes and the channel *)

\* hash and hash_f: SHA-256 of the bytes, cut to a field element
hash(x, y) == (RngMix(5, x * FieldSize + y) \div 8) % FieldSize
hash_f(x) == (RngMix(11, x) \div 8) % FieldSize

\* the byte representation of a field element: ByteReprLen digits, low first
ByteReprLen == 2
to_bytes(x) == <<x % 2, x \div 2>>
from_bytes(chunk) == chunk[1] + 2 * chunk[2]

\* a channel is the sequence of the items written and not yet read
write_u64(channel, v) == Append(channel, [t |-> "u64", v |-> v])

write_vec_f_element_count(channel, v) ==
    channel \o <<[t |-> "usize", v |-> Len(v)],
                 [t |-> "bytes",
                  v |-> Vec([q \in 1 .. (Len(v) * ByteReprLen) |->
                           to_bytes(v[(q + 1) \div ByteReprLen])[((q - 1) % ByteReprLen) + 1]])]>>

\* write_vec_f: the length in bytes, then the bytes
write_vec_f(channel, v) ==
    channel \o <<[t |-> "usize", v |-> Len(v) * ByteReprLen],
                 [t |-> "bytes",
                  v |-> Vec([q \in 1 .. (Len(v) * ByteReprLen) |->
                           to_bytes(v[(q + 1) \div ByteReprLen])[((q - 1) % ByteReprLen) + 1]])]>>

\* read_vec_f: the length, that many bytes cut into chunks of ByteReprLen;
\* the vector read and the channel after it
FromChunks(bytes) ==
    Vec([q \in 1 .. (Len(bytes) \div ByteReprLen) |->
           from_bytes(<<bytes[ByteReprLen * q - 1], bytes[ByteReprLen * q]>>)])

read_vec_f(channel) ==
    [v |-> FromChunks(SubSeq(channel[2].v, 1, channel[1].v)),
     channel |-> SubSeq(channel, 3, Len(channel))]

aux_send(kind, channel, aux) ==
    IF kind = Paxos
    THEN write_u64(write_u64(write_u64(channel, aux[1]), aux[2]), aux[3])
    ELSE channel

aux_receive(kind, channel) ==
    IF kind = Paxos
    THEN [aux |-> <<channel[1].v, channel[2].v, channel[3].v>>,
          channel |-> SubSeq(channel, 4, Len(channel))]
    ELSE [aux |-> <<>>, channel |-> channel]

\* the items one aux and one vector take on a channel
AuxItems(kind) == IF kind = Paxos THEN 3 ELSE 0
AuxAndVecReady(kind, channel) == Len(channel) >= AuxItems(kind) + 2

----------------------------------------------------------------------------
(* One vector of field elements written at one end of a channel and read at *)
(* the other                                                                *)

MaxVecLen == 3

WireInit ==
    /\ vole = Idle
    /\ slv = Idle
    /\ psi = Idle
    /\ mt = Idle
    /\ \E len \in 0 .. MaxVecLen :
          \E v \in [1 .. len -> F] :
             prf = [phase |-> "wire", v |-> v, channel |-> <<>>, written |-> FALSE,
                    read |-> FALSE, res |-> <<>>]

WireWrite ==
    /\ prf.phase = "wire"
    /\ ~prf.written
    /\ prf' = [prf EXCEPT !.written = TRUE, !.channel = write_vec_f(prf.channel, prf.v)]
    /\ UNCHANGED <<vole, slv, psi, mt>>

\* read_usize blocks until the writer has written
WireRead ==
    /\ prf.phase = "wire"
    /\ ~prf.read
    /\ Len(prf.channel) >= 2
    /\ \E got \in {read_vec_f(prf.channel)} :
          prf' = [prf EXCEPT !.read = TRUE, !.res = got.v, !.channel = got.channel]
    /\ UNCHANGED <<vole, slv, psi, mt>>

WireNext == WireWrite \/ WireRead

SpecWire == WireInit /\ [][WireNext]_vars

\* C23: field-vector wire round trip.  What write_vec_f(v) puts on the wire
\* is the byte length of v as a usize and then that many bytes, and
\* read_vec_f at the other end returns exactly v, the empty vector included,
\* leaving nothing on the channel.
C23_WireRoundTrip ==
    prf.phase = "wire" =>
        /\ (prf.written /\ ~prf.read) =>
              /\ Len(prf.channel) = 2
              /\ prf.channel[1] = [t |-> "usize", v |-> Len(prf.v) * ByteReprLen]
              /\ prf.channel[2].t = "bytes"
              /\ Len(prf.channel[2].v) = prf.channel[1].v
              /\ \A i \in 1 .. Len(prf.v) :
                    SubSeq(prf.channel[2].v, ByteReprLen * (i - 1) + 1, ByteReprLen * i)
                       = to_bytes(prf.v[i])
        /\ prf.read =>
              /\ Len(prf.res) = Len(prf.v)
              /\ \A i \in 1 .. Len(prf.v) : prf.res[i] = prf.v[i]
              /\ prf.channel = <<>>

\* a vector of MaxVecLen elements that differ in both bytes was read back
C23_Witness ==
    /\ prf.phase = "wire"
    /\ prf.read
    /\ Len(prf.v) = MaxVecLen
    /\ Len(prf.res) = MaxVecLen
    /\ prf.res[1] = 1
    /\ prf.res[2] = FieldSize - 2
    /\ prf.res[MaxVecLen] = prf.v[MaxVecLen]

----------------------------------------------------------------------------
(* One call of PaxosSolver::calc_params and code_length, over every usize   *)
(* and both kinds of build                                                  *)

\* a slice of field elements holds at most isize::MAX bytes
MaxSliceLen == (2 ^ (UsizeBits - 1) - 1) \div ByteReprLen

ParamsInit ==
    /\ vole = Idle
    /\ prf = Idle
    /\ psi = Idle
    /\ mt = Idle
    /\ \E n \in 1 .. (UsizeModulus - 1), overflow_checks \in BOOLEAN :
          slv = [phase |-> "params", n |-> n, overflow_checks |-> overflow_checks,
                 res |-> "", params |-> [l_size |-> 0, r_size |-> 0], code_length |-> 0]

ParamsCalc ==
    /\ slv.phase = "params"
    /\ slv.res = ""
    /\ slv' = IF slv.overflow_checks /\ PaxosCalcOverflows(slv.n)
              THEN [slv EXCEPT !.res = "panic"]
              ELSE [slv EXCEPT !.res = "ok",
                               !.params = PaxosCalcParams(slv.n),
                               !.code_length = PaxosCodeLength(PaxosCalcParams(slv.n))]
    /\ UNCHANGED <<vole, prf, psi, mt>>

ParamsNext == ParamsCalc

SpecParams == ParamsInit /\ [][ParamsNext]_vars

\* the least e with 2^e >= n
CeilLog2(n) == CHOOSE e \in 0 .. UsizeBits : 2 ^ e >= n /\ (e = 0 \/ 2 ^ (e - 1) < n)

\* C22: for every n >= 1 that is the size of a set, PaXoS calc_params(n)
\* returns L = 2n + floor(n / 100) and R = ceil(log2 n) + 40 in every build,
\* and code_length is L + R.
C22_PaxosParams ==
    (slv.phase = "params" /\ slv.res # "" /\ slv.n <= MaxSliceLen) =>
        /\ slv.res = "ok"
        /\ slv.params.l_size = 2 * slv.n + (slv.n \div 100)
        /\ slv.params.r_size = CeilLog2(slv.n) + 40
        /\ slv.code_length = slv.params.l_size + slv.params.r_size

\* the parameters of a set of at least two hundred elements, not a power of
\* two
C22_Witness ==
    /\ slv.phase = "params"
    /\ slv.res = "ok"
    /\ slv.n <= MaxSliceLen
    /\ slv.n \div 100 = 2
    /\ 2 ^ CeilLog2(slv.n) # slv.n
    /\ slv.code_length = 2 * slv.n + 2 + CeilLog2(slv.n) + 40

----------------------------------------------------------------------------
(* LPN-based VOLE sharing: the sVOLE library hands the sender Delta and B   *)
(* and the receiver A (in the prime subfield) and C = A * Delta + B         *)

LpnOutLen == 48

LpnCorrelated(delta, a, b) ==
    [delta |-> delta, b |-> b, a |-> a,
     c |-> Vec([i \in 1 .. LpnOutLen |-> FAdd(FMul(a[i], delta), b[i])])]

LpnCorrelation(seed) ==
    LpnCorrelated(GenFAt(NewRng(seed, <<>>), 0),
                  Vec([i \in 1 .. LpnOutLen |-> GenFAt(NewRng(seed, <<>>), 2 * i) % 2]),
                  Vec([i \in 1 .. LpnOutLen |-> GenFAt(NewRng(seed, <<>>), 2 * i - 1)]))

LPNVoleSenderReceive_last_m(corr, m) ==
    IF Len(corr.b) < m THEN [res |-> "err", delta |-> 0, vec_b |-> <<>>]
    ELSE [res |-> "ok", delta |-> corr.delta,
          vec_b |-> SubSeq(corr.b, Len(corr.b) - m + 1, Len(corr.b))]

\* LPNVoleSender::receive and LPNVoleReceiver::receive on the expansion the
\* library returns: out[..m], or an error when it is shorter than m
LPNVoleSenderReceive(corr, m) ==
    IF Len(corr.b) < m THEN [res |-> "err", delta |-> 0, vec_b |-> <<>>]
    ELSE [res |-> "ok", delta |-> corr.delta, vec_b |-> SubSeq(corr.b, 1, m)]

LPNVoleReceiverReceive(corr, m) ==
    IF Len(corr.a) < m \/ Len(corr.c) < m
    THEN [res |-> "err", vec_a |-> <<>>, vec_c |-> <<>>]
    ELSE [res |-> "ok", vec_a |-> SubSeq(corr.a, 1, m), vec_c |-> SubSeq(corr.c, 1, m)]


(* One LPN-based VOLE session: both parties ask for m elements of the same  *)
(* expansion                                                                *)

LpnInit ==
    /\ slv = Idle
    /\ prf = Idle
    /\ psi = Idle
    /\ mt = Idle
    /\ \E seed \in 0 .. (NumSeeds - 1), m \in 0 .. (LpnOutLen + 2) :
          vole = [phase |-> "lpn", corr |-> LpnCorrelation(seed), m |-> m,
                  sender |-> [res |-> "idle"], receiver |-> [res |-> "idle"]]

LpnSenderReceive ==
    /\ vole.sender.res = "idle"
    /\ vole' = [vole EXCEPT !.sender = LPNVoleSenderReceive(vole.corr, vole.m)]
    /\ UNCHANGED <<slv, prf, psi, mt>>

LpnReceiverReceive ==
    /\ vole.receiver.res = "idle"
    /\ vole' = [vole EXCEPT !.receiver = LPNVoleReceiverReceive(vole.corr, vole.m)]
    /\ UNCHANGED <<slv, prf, psi, mt>>

LpnNext ==
    \/ LpnSenderReceive
    \/ LpnReceiverReceive

SpecLpn == LpnInit /\ [][LpnNext]_vars

\* C19: LPN-based VOLE.  When the expansion has at least m samples each
\* party returns exactly m elements, the first m of the expansion, so that
\* C[i] = A[i] * Delta + B[i] at every index; when it has fewer than m the
\* call returns an error and no vector.
C19_FirstMOrError ==
    /\ vole.sender.res # "idle"
       => IF vole.m <= Len(vole.corr.b)
          THEN /\ vole.sender.res = "ok"
               /\ Len(vole.sender.vec_b) = vole.m
               /\ \A i \in 1 .. vole.m : vole.sender.vec_b[i] = vole.corr.b[i]
               /\ vole.sender.delta = vole.corr.delta
          ELSE vole.sender.res = "err" /\ vole.sender.vec_b = <<>>
    /\ vole.receiver.res # "idle"
       => IF vole.m <= Len(vole.corr.a)
          THEN /\ vole.receiver.res = "ok"
               /\ Len(vole.receiver.vec_a) = vole.m
               /\ Len(vole.receiver.vec_c) = vole.m
               /\ \A i \in 1 .. vole.m :
                     /\ vole.receiver.vec_a[i] = vole.corr.a[i]
                     /\ vole.receiver.vec_c[i] = vole.corr.c[i]
          ELSE /\ vole.receiver.res = "err"
               /\ vole.receiver.vec_a = <<>>
               /\ vole.receiver.vec_c = <<>>
    /\ (vole.sender.res = "ok" /\ vole.receiver.res = "ok")
       => \A i \in 1 .. vole.m :
             vole.receiver.vec_c[i]
                = FAdd(FMul(vole.receiver.vec_a[i], vole.sender.delta), vole.sender.vec_b[i])

\* both parties have returned fewer elements than the expansion holds, and
\* the elements are not all alike
C19_Witness ==
    /\ vole.sender.res = "ok"
    /\ vole.receiver.res = "ok"
    /\ vole.m > 1
    /\ vole.m < Len(vole.corr.b)
    /\ \E i, j \in 1 .. vole.m : vole.sender.vec_b[i] # vole.sender.vec_b[j]
    /\ \E i \in 1 .. vole.m : vole.receiver.vec_a[i] # 0

----------------------------------------------------------------------------
(* Separated OPRF and OPPRF roles *)

\* the encode attempts of receive / send: `e` is the attempt just made with
\* `aux`, and `left` attempts are to go; a new aux is generated after every
\* failed attempt, the last one included.  `tries` lists the attempts made:
\* the aux of each, the position of the generator it was drawn at, and the
\* result of the attempt before it; the result carries them with the result
\* of the last attempt
RECURSIVE EncodeLoop(_, _, _, _, _, _, _)
EncodeLoop(kind, e, aux, points, params, left, tries) ==
    IF e.res = "ok" \/ e.res = "panic"
    THEN [res |-> e.res, p |-> e.p, aux |-> aux, rng |-> e.rng,
          tries |-> [attempts |-> tries, last |-> e.res]]
    ELSE IF left = 0
    THEN [res |-> "err", p |-> <<>>, aux |-> gen_aux(kind, e.rng).aux,
          rng |-> gen_aux(kind, e.rng).rng, tries |-> [attempts |-> tries, last |-> "err"]]
    ELSE EncodeLoop(kind,
                    encode(kind, gen_aux(kind, e.rng).rng, points,
                           gen_aux(kind, e.rng).aux, params),
                    gen_aux(kind, e.rng).aux, points, params, left - 1,
                    Append(tries, [aux |-> gen_aux(kind, e.rng).aux, at |-> e.rng.ctr,
                                   prev |-> e.res]))

\* gen_aux, then `for _ in 0..2 { encode ... }`: the first gen_aux is the one
\* that follows no attempt
EncodeTwice_thrice(kind, rng, points, params) ==
    EncodeLoop(kind, [res |-> "err", rng |-> rng], <<>>, points, params, 3, <<>>)

EncodeTwice_first_aux(kind, rng, points, params) ==
    [EncodeLoop(kind, [res |-> "err", rng |-> rng], <<>>, points, params, 2, <<>>)
        EXCEPT !.aux = gen_aux(kind, rng).aux]

EncodeTwice(kind, rng, points, params) ==
    EncodeLoop(kind, [res |-> "err", rng |-> rng], <<>>, points, params, 2, <<>>)

\* SepOprfSenderWithVole::precomp
OprfSenderPrecomp(kind, query_num, corr) ==
    LET params == calc_params(kind, query_num)
        m == code_length(kind, params)
        share == LPNVoleSenderReceive(corr, m)
    IN IF share.res # "ok" \/ Len(share.vec_b) # m
       THEN [res |-> "err"]
       ELSE [res |-> "ok", kind |-> kind, params |-> params,
             delta |-> share.delta, vec_b |-> share.vec_b]

\* SepOprfReceiverWithVole::precomp
OprfReceiverPrecomp(kind, query_num, corr) ==
    LET params == calc_params(kind, query_num)
        m == code_length(kind, params)
        share == LPNVoleReceiverReceive(corr, m)
    IN IF share.res # "ok" \/ Len(share.vec_a) # m \/ Len(share.vec_c) # m
       THEN [res |-> "err"]
       ELSE [res |-> "ok", kind |-> kind, params |-> params,
             vec_a |-> share.vec_a, vec_c |-> share.vec_c]

MaskWithShare_none(p, vec_a) == p

\* p_plus_a: the code vector plus the receiver's share A, element by element
MaskWithShare(p, vec_a) == Vec([i \in 1 .. Len(p) |-> FAdd(p[i], vec_a[i])])

\* SepOprfReceiverWithVole::receive after the encoding `enc`: `out` is the
\* channel after the writes
OprfReceiverWrite(self, queries, enc, out) ==
    IF enc.res # "ok"
    THEN [res |-> enc.res, rng |-> enc.rng, out |-> out, result |-> <<>>,
          aux |-> enc.aux, p |-> <<>>, tries |-> enc.tries]
    ELSE IF Len(enc.p) # Len(self.vec_a)
    THEN [res |-> "err", rng |-> enc.rng, out |-> aux_send(self.kind, out, enc.aux),
          result |-> <<>>, aux |-> enc.aux, p |-> enc.p, tries |-> enc.tries]
    ELSE [res |-> "ok", rng |-> enc.rng, tries |-> enc.tries,
          out |-> write_vec_f(aux_send(self.kind, out, enc.aux),
                              MaskWithShare(enc.p, self.vec_a)),
          result |-> Vec([i \in 1 .. Len(queries) |->
              <<queries[i],
                hash(decode(self.kind, self.vec_c, queries[i], enc.aux, self.params),
                     queries[i])>>]),
          aux |-> enc.aux, p |-> enc.p]

\* SepOprfReceiverWithVole::receive
OprfReceiverReceive(self, queries, rng, out) ==
    OprfReceiverWrite(self, queries,
                      EncodeTwice(self.kind, rng,
                                  Vec([i \in 1 .. Len(queries) |->
                                         <<queries[i], hash_f(queries[i])>>]),
                                  self.params),
                      out)

\* the key vector K[i] = delta * a_dash[i] + b[i] and the evaluator's captures
OprfKey(self, aux, a_dash, in) ==
    IF Len(a_dash) # code_length(self.kind, self.params)
    THEN [res |-> "err", in |-> in, fk |-> <<>>]
    ELSE [res |-> "ok", in |-> in,
          fk |-> [kind |-> self.kind, params |-> self.params, aux |-> aux,
                  delta |-> self.delta,
                  k |-> Vec([i \in 1 .. Len(a_dash) |->
                               FAdd(FMul(self.delta, a_dash[i]), self.vec_b[i])])]]

OprfSenderRead_vector_unread(self, got, vec) == OprfKey(self, got.aux, vec.v, got.channel)

OprfSenderRead(self, got, vec) == OprfKey(self, got.aux, vec.v, vec.channel)

\* SepOprfSenderWithVole::send: `in` holds the peer's aux and vector; fk is
\* the evaluator returned, as the values it captured
OprfSenderSend(self, in) ==
    OprfSenderRead(self, aux_receive(self.kind, in),
                   read_vec_f(aux_receive(self.kind, in).channel))

OprfFk_no_delta(fk, x) ==
    hash(FSub(decode(fk.kind, fk.k, x, fk.aux, fk.params), hash_f(x)), x)

\* the closure fk of SepOprfSenderWithVole::send
OprfFk(fk, x) ==
    LET d == decode(fk.kind, fk.k, x, fk.aux, fk.params)
        f_dash == FSub(d, FMul(fk.delta, hash_f(x)))
    IN hash(f_dash, x)

\* SepOpprfSenderWithVole::send after the encoding `enc`
OpprfSenderWrite(self, oprf, enc, out) ==
    IF enc.res # "ok"
    THEN [res |-> enc.res, rng |-> enc.rng, in |-> oprf.in, out |-> out, fk |-> <<>>,
          tries |-> enc.tries]
    ELSE [res |-> "ok", rng |-> enc.rng, in |-> oprf.in, tries |-> enc.tries,
          out |-> write_vec_f(aux_send(self.kind, out, enc.aux), enc.p),
          fk |-> [kind |-> self.kind, params |-> self.params, aux |-> enc.aux,
                  p |-> enc.p, oprf |-> oprf.fk]]

\* SepOpprfSenderWithVole::send after the OPRF part `oprf`
OpprfSenderEncode(self, points, rng, oprf, out) ==
    IF oprf.res # "ok"
    THEN [res |-> "err", rng |-> rng, in |-> oprf.in, out |-> out, fk |-> <<>>,
          tries |-> [attempts |-> <<>>, last |-> "none"]]
    ELSE OpprfSenderWrite(self, oprf,
                          EncodeTwice(self.kind, rng,
                                      Vec([i \in 1 .. Len(points) |->
                                             <<points[i][1],
                                               FSub(points[i][2],
                                                    OprfFk(oprf.fk, points[i][1]))>>]),
                                      self.params),
                          out)

\* SepOpprfSenderWithVole::send
OpprfSenderSend(self, points, rng, in, out) ==
    OpprfSenderEncode(self, points, rng, OprfSenderSend(self, in), out)

\* the closure fk of SepOpprfSenderWithVole::send
OpprfFk(fk, x) == FAdd(decode(fk.kind, fk.p, x, fk.aux, fk.params), OprfFk(fk.oprf, x))

OpprfReceiverRead_no_oprf(self, oprf_res, got, vec) ==
    [in |-> vec.channel,
     points |-> Vec([i \in 1 .. Len(oprf_res) |->
         <<oprf_res[i][1],
           decode(self.kind, vec.v, oprf_res[i][1], got.aux, self.params)>>])]

\* the points of SepOpprfReceiverWithVole::receive: decode(p, x) + fk(x)
OpprfReceiverRead(self, oprf_res, got, vec) ==
    [in |-> vec.channel,
     points |-> Vec([i \in 1 .. Len(oprf_res) |->
         <<oprf_res[i][1],
           FAdd(decode(self.kind, vec.v, oprf_res[i][1], got.aux, self.params),
                oprf_res[i][2])>>])]

\* SepOpprfReceiverWithVole::receive after its OPRF part: reads the peer's
\* aux and code vector and adds the OPRF outputs
OpprfReceiverFinish(self, oprf_res, in) ==
    OpprfReceiverRead(self, oprf_res, aux_receive(self.kind, in),
                      read_vec_f(aux_receive(self.kind, in).channel))

----------------------------------------------------------------------------
(* One OPRF or OPPRF session between a sender and a receiver *)

MaxQueries == 2

OPRF == "OPRF"
OPPRF == "OPPRF"

IsPrefix(a, b) == Len(a) <= Len(b) /\ \A i \in 1 .. Len(a) : a[i] = b[i]

\* the vector written last on a channel, as the peer will read it
LastVecWritten(channel) == read_vec_f(SubSeq(channel, Len(channel) - 1, Len(channel))).v

PrfStart(proto, kind, queries, points, srng, rrng, corr) ==
    [proto |-> proto, kind |-> kind, query_num |-> Len(queries),
     queries |-> queries, points |-> points, corr |-> corr,
     s |-> [pc |-> "init", self |-> <<>>, rng |-> srng, fk |-> <<>>,
            tries |-> [attempts |-> <<>>, last |-> "none"]],
     r |-> [pc |-> "init", self |-> <<>>, rng |-> rrng, oprf_res |-> <<>>,
            p |-> <<>>, result |-> <<>>,
            tries |-> [attempts |-> <<>>, last |-> "none"]],
     to_s |-> <<>>, to_r |-> <<>>, wire |-> <<>>,
     written |-> [s |-> <<>>, r |-> <<>>], read |-> [s |-> <<>>, r |-> <<>>]]

\* the sender's xs: n distinct elements in increasing order
IncreasingSeqs(n) == {xs \in [1 .. n -> F] : \A i, j \in 1 .. n : i < j => xs[i] < xs[j]}

PrfInit ==
    /\ vole = Idle
    /\ slv = Idle
    /\ psi = Idle
    /\ mt = Idle
    /\ \E proto \in {OPRF, OPPRF}, n \in 1 .. MaxQueries :
          \/ \E h1, h2 \in [1 .. n -> 0 .. (2 * n - 1)] :
                /\ FirstUseOrder(h1, h2, n)
                /\ \E rd \in [1 .. n -> 0 .. (RDigests - 1)],
                      xs \in IncreasingSeqs(n),
                      zs \in [1 .. n -> IF proto = OPRF THEN {0} ELSE YValues] :
                   prf = PrfStart(proto, Paxos, PaxosXs(n),
                                  [i \in 1 .. n |-> <<xs[i], zs[i]>>],
                                  NewRng(n % NumSeeds, <<KeyWithDigests(xs, h1),
                                                         KeyWithDigests(xs, h2),
                                                         KeyWithDigests(xs, rd)>>),
                                  NewRng((n % NumSeeds) + 1,
                                         <<KeyWithDigests(PaxosXs(n), h1),
                                           KeyWithDigests(PaxosXs(n), h2),
                                           KeyWithDigests(PaxosXs(n), rd)>>),
                                  (n % NumSeeds) + 2)
          \/ \E np \in 1 .. MaxQueries :
                \E qs \in InjectiveSeqs(n), xs \in IncreasingSeqs(np),
                   zs \in [1 .. np -> IF proto = OPRF THEN {0} ELSE F],
                   seed \in 0 .. (NumSeeds - 1) :
                   prf = PrfStart(proto, Vandelmonde, qs,
                                  [i \in 1 .. np |-> <<xs[i], zs[i]>>],
                                  NewRng(seed, <<>>), NewRng(seed + 1, <<>>), seed + 2)

\* SepOprfSender::precomp / SepOpprfSender::precomp
PrfSenderPrecomp ==
    /\ prf.s.pc = "init"
    /\ \E st \in {OprfSenderPrecomp(prf.kind, prf.query_num, LpnCorrelation(prf.corr))} :
       prf' = [prf EXCEPT !.s.pc = IF st.res = "ok" THEN "ready" ELSE "failed",
                          !.s.self = st]
    /\ UNCHANGED <<vole, slv, psi, mt>>

\* SepOprfReceiver::precomp / SepOpprfReceiver::precomp
PrfReceiverPrecomp ==
    /\ prf.r.pc = "init"
    /\ \E st \in {OprfReceiverPrecomp(prf.kind, prf.query_num, LpnCorrelation(prf.corr))} :
       prf' = [prf EXCEPT !.r.pc = IF st.res = "ok" THEN "ready" ELSE "failed",
                          !.r.self = st]
    /\ UNCHANGED <<vole, slv, psi, mt>>

\* the receiver's receive up to its writes: all of SepOprfReceiver::receive,
\* and the OPRF part of SepOpprfReceiver::receive
PrfReceiverReceive ==
    /\ prf.r.pc = "ready"
    /\ \E o \in {OprfReceiverReceive(prf.r.self, prf.queries, prf.r.rng, prf.to_s)} :
       prf' = [prf EXCEPT
                 !.r.pc = IF o.res # "ok" THEN "failed"
                          ELSE IF prf.proto = OPRF THEN "done" ELSE "sent",
                 !.r.rng = o.rng,
                 !.r.oprf_res = o.result,
                 !.r.p = o.p,
                 !.r.tries = o.tries,
                 !.r.result = IF prf.proto = OPRF THEN o.result ELSE <<>>,
                 !.to_s = o.out,
                 !.written.r = @ \o SubSeq(o.out, Len(prf.to_s) + 1, Len(o.out)),
                 !.wire = IF o.res = "ok"
                          THEN Append(@, [by |-> "oprf_receiver",
                                          v |-> LastVecWritten(o.out), code |-> o.p])
                          ELSE @]
    /\ UNCHANGED <<vole, slv, psi, mt>>

\* SepOprfSender::send, or SepOpprfSender::send; both start by reading the
\* receiver's aux and vector
PrfSenderSend ==
    /\ prf.s.pc = "ready"
    /\ AuxAndVecReady(prf.kind, prf.to_s)
    /\ IF prf.proto = OPRF
       THEN \E o \in {OprfSenderSend(prf.s.self, prf.to_s)} :
            prf' = [prf EXCEPT !.s.pc = IF o.res = "ok" THEN "done" ELSE "failed",
                               !.s.fk = o.fk,
                               !.read.s = @ \o SubSeq(prf.to_s, 1,
                                                      Len(prf.to_s) - Len(o.in)),
                               !.to_s = o.in]
       ELSE \E o \in {OpprfSenderSend(prf.s.self, prf.points, prf.s.rng,
                                       prf.to_s, prf.to_r)} :
            prf' = [prf EXCEPT !.s.pc = IF o.res = "ok" THEN "done" ELSE "failed",
                               !.s.fk = o.fk,
                               !.s.rng = o.rng,
                               !.s.tries = o.tries,
                               !.to_s = o.in,
                               !.to_r = o.out,
                               !.read.s = @ \o SubSeq(prf.to_s, 1,
                                                      Len(prf.to_s) - Len(o.in)),
                               !.written.s = @ \o SubSeq(o.out, Len(prf.to_r) + 1,
                                                         Len(o.out)),
                               !.wire = IF o.res = "ok"
                                        THEN Append(@, [by |-> "opprf_sender",
                                                        v |-> LastVecWritten(o.out),
                                                        code |-> o.fk.p])
                                        ELSE @]
    /\ UNCHANGED <<vole, slv, psi, mt>>

\* the rest of SepOpprfReceiver::receive: reads the sender's aux and vector
PrfReceiverFinish ==
    /\ prf.r.pc = "sent"
    /\ AuxAndVecReady(prf.kind, prf.to_r)
    /\ \E o \in {OpprfReceiverFinish(prf.r.self, prf.r.oprf_res, prf.to_r)} :
       prf' = [prf EXCEPT !.r.pc = "done", !.r.result = o.points, !.to_r = o.in,
                          !.read.r = @ \o SubSeq(prf.to_r, 1,
                                                 Len(prf.to_r) - Len(o.in))]
    /\ UNCHANGED <<vole, slv, psi, mt>>

PrfNext ==
    \/ PrfSenderPrecomp
    \/ PrfReceiverPrecomp
    \/ PrfReceiverReceive
    \/ PrfSenderSend
    \/ PrfReceiverFinish

SpecPrf == PrfInit /\ [][PrfNext]_vars

\* the evaluator of the OPRF the session runs: the sender's fk of an OPRF
\* session, the inner fk of an OPPRF session
PrfOprfFk == IF prf.proto = OPRF THEN prf.s.fk ELSE prf.s.fk.oprf

\* C5: OPRF agreement.  Once the sender's send has returned its evaluator f
\* and the receiver's receive has returned its pairs, every query x that is
\* also in the sender's set has f(x) = y for the receiver's pair (x, y).
C5_OprfAgreement ==
    (prf.s.pc = "done" /\ prf.r.pc \in {"sent", "done"}) =>
        \A i \in 1 .. Len(prf.queries) :
            (\E j \in 1 .. Len(prf.points) : prf.points[j][1] = prf.queries[i]) =>
                /\ prf.r.oprf_res[i][1] = prf.queries[i]
                /\ OprfFk(PrfOprfFk, prf.queries[i]) = prf.r.oprf_res[i][2]

\* an OPRF session over PaXoS that has finished on both sides, with two
\* queries of which exactly one is in the sender's set
C5_Witness ==
    /\ prf.proto = OPRF
    /\ prf.kind = Paxos
    /\ prf.s.pc = "done"
    /\ prf.r.pc = "done"
    /\ Len(prf.queries) = MaxQueries
    /\ \E i, k \in 1 .. Len(prf.queries) :
          /\ \E j \in 1 .. Len(prf.points) : prf.points[j][1] = prf.queries[i]
          /\ \A j \in 1 .. Len(prf.points) : prf.points[j][1] # prf.queries[k]
          /\ OprfFk(prf.s.fk, prf.queries[i]) = prf.r.result[i][2]
          /\ prf.r.result[i][2] # 0

\* C4: OPPRF programmability.  Once the OPPRF sender's send and the OPPRF
\* receiver's receive have returned, every query equal to the x of a point
\* (x, z) of the sender is answered by the pair (x, z).
C4_OpprfProgrammability ==
    (prf.proto = OPPRF /\ prf.s.pc = "done" /\ prf.r.pc = "done") =>
        \A i \in 1 .. Len(prf.queries), j \in 1 .. Len(prf.points) :
            prf.points[j][1] = prf.queries[i] =>
                prf.r.result[i] = <<prf.queries[i], prf.points[j][2]>>

\* an OPPRF session over PaXoS that has finished on both sides: one query
\* is programmed with a nonzero z that differs from the OPRF output at it,
\* another query is not programmed
C4_Witness ==
    /\ prf.proto = OPPRF
    /\ prf.kind = Paxos
    /\ prf.s.pc = "done"
    /\ prf.r.pc = "done"
    /\ \E i, k \in 1 .. Len(prf.queries) :
          /\ \E j \in 1 .. Len(prf.points) :
                /\ prf.points[j][1] = prf.queries[i]
                /\ prf.points[j][2] # 0
                /\ prf.points[j][2] # prf.r.oprf_res[i][2]
                /\ prf.r.result[i][2] = prf.points[j][2]
          /\ \A j \in 1 .. Len(prf.points) : prf.points[j][1] # prf.queries[k]

\* the vectors a + b, element by element, over the length of a
VecAdd(a, b) == [i \in 1 .. Len(a) |-> FAdd(a[i], b[i])]
SameVec(a, b) == Len(a) = Len(b) /\ \A i \in 1 .. Len(a) : a[i] = b[i]

\* the statement of C9 as the specification words it: every vector written
\* is the writer's code vector plus one of the writer's VOLE shares (A or C
\* for the OPRF receiver, B for the OPPRF sender)
C9_AlwaysMasked ==
    \A w \in 1 .. Len(prf.wire) :
        IF prf.wire[w].by = "oprf_receiver"
        THEN \/ /\ Len(prf.wire[w].code) = Len(prf.r.self.vec_a)
                /\ SameVec(prf.wire[w].v, VecAdd(prf.wire[w].code, prf.r.self.vec_a))
             \/ /\ Len(prf.wire[w].code) = Len(prf.r.self.vec_c)
                /\ SameVec(prf.wire[w].v, VecAdd(prf.wire[w].code, prf.r.self.vec_c))
        ELSE /\ Len(prf.wire[w].code) <= Len(prf.s.self.vec_b)
             /\ SameVec(prf.wire[w].v, VecAdd(prf.wire[w].code, prf.s.self.vec_b))

\* C9: the vectors on the wire.  The vector the OPRF receiver writes is its
\* code vector plus its VOLE share A, element by element; the vector the
\* OPPRF sender writes is its code vector itself, with no share added.
C9_WireVectors ==
    \A w \in 1 .. Len(prf.wire) :
        IF prf.wire[w].by = "oprf_receiver"
        THEN /\ Len(prf.wire[w].code) = Len(prf.r.self.vec_a)
             /\ SameVec(prf.wire[w].v, VecAdd(prf.wire[w].code, prf.r.self.vec_a))
        ELSE SameVec(prf.wire[w].v, prf.wire[w].code)

\* both vectors of an OPPRF session have been written: the receiver's
\* differs from its code vector, the sender's is its code vector although
\* the sender's share B is not zero there
C9_Witness ==
    /\ prf.proto = OPPRF
    /\ Len(prf.wire) = 2
    /\ prf.wire[1].by = "oprf_receiver"
    /\ ~SameVec(prf.wire[1].v, prf.wire[1].code)
    /\ prf.wire[2].by = "opprf_sender"
    /\ SameVec(prf.wire[2].v, prf.wire[2].code)
    /\ \E i \in 1 .. Len(prf.wire[2].code) : prf.s.self.vec_b[i] # 0

\* the code length both roles fixed at precomp
PrfM == code_length(prf.kind, calc_params(prf.kind, prf.query_num))

\* the items one aux and one vector of `len` elements take on the wire
IsAuxAndVec(items, len) ==
    /\ Len(items) = AuxItems(prf.kind) + 2
    /\ \A i \in 1 .. AuxItems(prf.kind) : items[i].t = "u64"
    /\ items[AuxItems(prf.kind) + 1] = [t |-> "usize", v |-> len * ByteReprLen]
    /\ items[AuxItems(prf.kind) + 2].t = "bytes"
    /\ Len(items[AuxItems(prf.kind) + 2].v) = len * ByteReprLen

\* a role waits in a read for items its peer will never write
SenderBlocked ==
    prf.s.pc = "ready" /\ ~AuxAndVecReady(prf.kind, prf.to_s) /\ prf.r.pc \notin {"init", "ready"}
ReceiverBlocked ==
    prf.r.pc = "sent" /\ ~AuxAndVecReady(prf.kind, prf.to_r) /\ prf.s.pc \notin {"init", "ready"}

\* what the two directions carry, but for the length of the sender's vector
SessionOrder ==
    /\ prf.written.r = prf.read.s \o prf.to_s
    /\ prf.written.s = prf.read.r \o prf.to_r
    /\ prf.r.pc \in {"sent", "done"} => IsAuxAndVec(prf.written.r, PrfM)
    /\ prf.read.s # <<>> => prf.read.s = prf.written.r
    /\ prf.written.s # <<>> => prf.s.pc = "done" /\ prf.read.s = prf.written.r
    /\ prf.read.r # <<>> => prf.r.pc = "done" /\ prf.read.r = prf.written.s
    /\ (prf.s.pc # "failed" /\ prf.r.pc # "failed") => ~SenderBlocked /\ ~ReceiverBlocked
    /\ (prf.s.pc = "done" /\ prf.r.pc = "done") =>
          /\ prf.to_s = <<>>
          /\ prf.to_r = <<>>
          /\ prf.read.s = prf.written.r
          /\ prf.read.r = prf.written.s

\* C28 as stated: in an online OPPRF session the items each side writes are
\* the items the other side reads, in order: the receiver's aux and its
\* masked vector of length m go to the sender, then the sender's aux and its
\* vector of length m go to the receiver; when no encoding fails the session
\* ends with neither side blocked and nothing unread.
C28_VectorsOfLengthM ==
    prf.proto = OPPRF =>
        /\ SessionOrder
        /\ prf.s.pc = "done" => IsAuxAndVec(prf.written.s, PrfM)

\* C28, amended: the same, but the sender's vector has m elements with PaXoS
\* and as many elements as the sender has points with Vandermonde (m when it
\* programs as many points as the receiver has queries).
C28_SessionOrder ==
    prf.proto = OPPRF =>
        /\ SessionOrder
        /\ prf.s.pc = "done" =>
              IsAuxAndVec(prf.written.s,
                          IF prf.kind = Paxos THEN PrfM ELSE Len(prf.points))

\* an OPPRF session over PaXoS that both sides have finished: three words of
\* aux and a vector went each way and were read
C28_Witness ==
    /\ prf.proto = OPPRF
    /\ prf.kind = Paxos
    /\ prf.query_num = MaxQueries
    /\ prf.s.pc = "done"
    /\ prf.r.pc = "done"
    /\ Len(prf.read.s) = 5
    /\ Len(prf.read.r) = 5
    /\ prf.read.r = prf.written.s
    /\ prf.read.r # prf.read.s
    /\ prf.to_s = <<>>
    /\ prf.to_r = <<>>


\* the aux a peer reads off the items a role wrote
AuxOnWire(items) == aux_receive(prf.kind, items).aux

\* the last encode attempt of a role, and the points it encoded
LastTry(t) == t.attempts[Len(t.attempts)]
ReceiverPoints == Vec([i \in 1 .. Len(prf.queries) |-> <<prf.queries[i], hash_f(prf.queries[i])>>])
SenderPoints ==
    Vec([i \in 1 .. Len(prf.points) |->
           <<prf.points[i][1],
             FSub(prf.points[i][2], OprfFk(prf.s.fk.oprf, prf.points[i][1]))>>])

\* the attempt made with the aux drawn at position `at` of `rng` succeeds
TrySucceeds(rng, try, points, params) ==
    /\ gen_aux(prf.kind, [rng EXCEPT !.ctr = try.at]).aux = try.aux
    /\ encode(prf.kind, gen_aux(prf.kind, [rng EXCEPT !.ctr = try.at]).rng, points,
              try.aux, params).res = "ok"

\* C29: the aux an encoding party writes to its peer is the aux of its
\* successful encode attempt (the first aux drawn when the first attempt
\* succeeded, the one drawn after the failure otherwise), and its own decode
\* calls use that same aux: the OPRF receiver's outputs and the OPPRF
\* sender's evaluator.
C29_AuxOfSuccessfulAttempt ==
    /\ prf.r.pc \in {"sent", "done"} =>
          /\ prf.r.tries.last = "ok"
          /\ AuxOnWire(prf.written.r) = LastTry(prf.r.tries).aux
          /\ TrySucceeds(prf.r.rng, LastTry(prf.r.tries), ReceiverPoints, prf.r.self.params)
          /\ \A k \in 1 .. (Len(prf.r.tries.attempts) - 1) :
                prf.r.tries.attempts[k + 1].prev = "err"
          /\ \A i \in 1 .. Len(prf.queries) :
                prf.r.oprf_res[i][2]
                   = hash(decode(prf.kind, prf.r.self.vec_c, prf.queries[i],
                                 AuxOnWire(prf.written.r), prf.r.self.params),
                          prf.queries[i])
    /\ (prf.proto = OPPRF /\ prf.s.pc = "done") =>
          /\ prf.s.tries.last = "ok"
          /\ AuxOnWire(prf.written.s) = LastTry(prf.s.tries).aux
          /\ TrySucceeds(prf.s.rng, LastTry(prf.s.tries), SenderPoints, prf.s.self.params)
          /\ \A k \in 1 .. (Len(prf.s.tries.attempts) - 1) :
                prf.s.tries.attempts[k + 1].prev = "err"
          /\ prf.s.fk.aux = AuxOnWire(prf.written.s)

\* an OPPRF session over PaXoS that both sides have finished, in which the
\* receiver's first attempt failed and its second, with another aux,
\* succeeded
C29_Witness ==
    /\ prf.proto = OPPRF
    /\ prf.kind = Paxos
    /\ prf.s.pc = "done"
    /\ prf.r.pc = "done"
    /\ Len(prf.r.tries.attempts) = 2
    /\ prf.r.tries.attempts[1].aux # prf.r.tries.attempts[2].aux
    /\ AuxOnWire(prf.written.r) = prf.r.tries.attempts[2].aux
    /\ AuxOnWire(prf.written.s) = prf.s.fk.aux

----------------------------------------------------------------------------
(* One online role reading the aux and the vector of a peer that may write  *)
(* a vector of any length: the OPRF sender in send, the OPPRF receiver in   *)
(* the rest of receive after its OPRF part                                  *)

OprfSenderRole == "oprf_sender"
OpprfReceiverRole == "opprf_receiver"

\* PaxosSolver::decode indexes p at i, at j, from l_size on, and vec_r at
\* every set bit: an index past the end panics
PaxosDecodePanics(p, x, aux, params) ==
    \/ hash2index(aux[1], x, params.l_size) >= Len(p)
    \/ hash2index(aux[2], x, params.l_size) >= Len(p)
    \/ params.l_size > Len(p)
    \/ \E q \in 1 .. params.r_size :
          r(aux[3], x, params.r_size)[q] /\ params.l_size + q > Len(p)

DecodePanics(kind, p, x, aux, params) ==
    kind = Paxos /\ PaxosDecodePanics(p, x, aux, params)

\* a decode that does not panic reads no element past the end of p: zeros
\* stand for the elements that are not there
ZeroPadded(p, params) ==
    Vec([i \in 1 .. (Len(p) + params.l_size + params.r_size) |->
           IF i <= Len(p) THEN p[i] ELSE 0])

\* the rest of SepOpprfReceiverWithVole::receive on whatever the peer wrote:
\* aux_receive, read_vec_f, then decode at every query, with no look at the
\* length of the vector
OpprfReceiverOutcome(self, oprf_res, in) ==
    LET got == aux_receive(self.kind, in)
        vec == read_vec_f(got.channel)
    IN IF \E i \in 1 .. Len(oprf_res) :
             DecodePanics(self.kind, vec.v, oprf_res[i][1], got.aux, self.params)
       THEN [res |-> "panic", in |-> vec.channel, points |-> <<>>, decoded |-> TRUE]
       ELSE [res |-> "ok", in |-> vec.channel, decoded |-> Len(oprf_res) > 0,
             points |-> OpprfReceiverRead(self, oprf_res, got,
                                          [vec EXCEPT !.v = ZeroPadded(@, self.params)]).points]

LenM(kind, n) == code_length(kind, calc_params(kind, n))

LenInit ==
    /\ vole = Idle
    /\ slv = Idle
    /\ psi = Idle
    /\ mt = Idle
    /\ \E role \in {OprfSenderRole, OpprfReceiverRole}, kind \in {Paxos, Vandelmonde},
          n \in 1 .. MaxQueries, seed \in 0 .. (NumSeeds - 1) :
          \E len \in 0 .. (LenM(kind, n) + 1) :
             prf = [phase |-> "len", role |-> role, kind |-> kind, n |-> n, seed |-> seed,
                    len |-> len, pc |-> "init", self |-> <<>>, oprf_res |-> <<>>,
                    channel |-> <<>>, peer_wrote |-> FALSE, res |-> "", decoded |-> FALSE]

\* SepOprfSender::precomp / SepOpprfReceiver::precomp
LenPrecomp ==
    /\ prf.phase = "len"
    /\ prf.pc = "init"
    /\ \E st \in {IF prf.role = OprfSenderRole
                  THEN OprfSenderPrecomp(prf.kind, prf.n, LpnCorrelation(prf.seed))
                  ELSE OprfReceiverPrecomp(prf.kind, prf.n, LpnCorrelation(prf.seed))} :
          prf' = [prf EXCEPT !.self = st,
                             !.pc = IF st.res # "ok" THEN "failed"
                                    ELSE IF prf.role = OprfSenderRole THEN "reading"
                                    ELSE "ready"]
    /\ UNCHANGED <<vole, slv, psi, mt>>

\* SepOpprfReceiver::receive up to its reads: the OPRF part
LenReceiverOprf ==
    /\ prf.phase = "len"
    /\ prf.pc = "ready"
    /\ \E o \in {OprfReceiverReceive(prf.self, PaxosXs(prf.n) \o <<>>,
                                     NewRng(prf.seed + 1, <<>>), <<>>)} :
          prf' = [prf EXCEPT !.pc = IF o.res = "ok" THEN "reading" ELSE "failed",
                             !.oprf_res = o.result]
    /\ UNCHANGED <<vole, slv, psi, mt>>

\* the peer writes an aux and a vector of prf.len elements
LenPeerWrite ==
    /\ prf.phase = "len"
    /\ ~prf.peer_wrote
    /\ prf' = [prf EXCEPT
                 !.peer_wrote = TRUE,
                 !.channel = write_vec_f(
                     aux_send(prf.kind, <<>>, gen_aux(prf.kind, NewRng(prf.seed + 2, <<>>)).aux),
                     Vec([i \in 1 .. prf.len |-> GenFAt(NewRng(prf.seed + 2, <<>>), 3 + i)]))]
    /\ UNCHANGED <<vole, slv, psi, mt>>

\* SepOprfSender::send, or the rest of SepOpprfReceiver::receive
LenRead ==
    /\ prf.phase = "len"
    /\ prf.pc = "reading"
    /\ AuxAndVecReady(prf.kind, prf.channel)
    /\ IF prf.role = OprfSenderRole
       THEN \E o \in {OprfSenderSend(prf.self, prf.channel)} :
               prf' = [prf EXCEPT !.pc = "returned", !.res = o.res, !.channel = o.in]
       ELSE \E o \in {OpprfReceiverOutcome(prf.self, prf.oprf_res, prf.channel)} :
               prf' = [prf EXCEPT !.pc = "returned", !.res = o.res, !.channel = o.in,
                                  !.decoded = o.decoded]
    /\ UNCHANGED <<vole, slv, psi, mt>>

LenNext ==
    \/ LenPrecomp
    \/ LenReceiverOprf
    \/ LenPeerWrite
    \/ LenRead

SpecLen == LenInit /\ [][LenNext]_vars

\* C30: every online role that reads a vector from its peer returns an error
\* when the length it received is not m = code_length(n); it does not go on
\* to decode with such a vector.
C30_WrongLengthIsError ==
    (prf.phase = "len" /\ prf.pc = "returned" /\ prf.len # LenM(prf.kind, prf.n)) =>
        prf.res = "err" /\ ~prf.decoded

\* the half of it that is in the code: the OPRF sender's check of a_dash
OprfSenderChecksLength ==
    (prf.phase = "len" /\ prf.pc = "returned" /\ prf.role = OprfSenderRole) =>
        (prf.res = "err" <=> prf.len # LenM(prf.kind, prf.n))

----------------------------------------------------------------------------
(* Multi-party PSI: parties 0 .. N - 1, party 0 is the receiver.  Every     *)
(* party is a sequential program of steps on its channels; a read blocks    *)
(* until the peer has written.                                              *)

MaxParties == 3
MaxSetSize == 2

\* the channels of party me as its caller passes them: the other parties by
\* increasing id
Channels(me, N) == Vec([i \in 1 .. (N - 1) |-> IF i - 1 < me THEN i - 1 ELSE i])

\* one step of a party: an OPPRF role run with party `them`, for the zero
\* sharing ("zs") or the reconstruction ("rc"); `last` marks the step that
\* ends an iteration of the loop over the channels
Step(op, them, use, last) == [op |-> op, them |-> them, use |-> use, last |-> last]

\* Party::precomp: per channel the sender's precomp first if me < them
RECURSIVE PartyPrecompSteps(_, _, _)
PartyPrecompSteps(me, channels, q) ==
    IF q > Len(channels) THEN <<>>
    ELSE (IF me < channels[q]
          THEN <<Step("precomp_s", channels[q], "zs", FALSE),
                 Step("precomp_r", channels[q], "zs", TRUE)>>
          ELSE <<Step("precomp_r", channels[q], "zs", FALSE),
                 Step("precomp_s", channels[q], "zs", TRUE)>>)
         \o PartyPrecompSteps(me, channels, q + 1)

\* Receiver::precomp and Sender::precomp: Party::precomp, then the OPPRFs of
\* the reconstruction (the sender's on channels[0])
PrecompSteps(me, channels) ==
    PartyPrecompSteps(me, channels, 1) \o
    (IF me = 0
     THEN [q \in 1 .. Len(channels) |-> Step("precomp_r", channels[q], "rc", TRUE)]
     ELSE <<Step("precomp_s", channels[1], "rc", TRUE)>>)

SendsFirst_reversed(id, other_id) == id > other_id

SendsFirst_always(id, other_id) == TRUE

\* conditional_secret_sharing: `if self.id < other_id`
SendsFirst(id, other_id) == id < other_id

\* the loop of conditional_secret_sharing over the channels; receive is two
\* steps, its writes and its blocking read
RECURSIVE CssSteps(_, _, _)
CssSteps(id, channels, q) ==
    IF q > Len(channels) THEN <<>>
    ELSE (IF SendsFirst(id, channels[q])
          THEN <<Step("send", channels[q], "zs", FALSE),
                 Step("receive", channels[q], "zs", FALSE),
                 Step("read", channels[q], "zs", TRUE)>>
          ELSE <<Step("receive", channels[q], "zs", FALSE),
                 Step("read", channels[q], "zs", FALSE),
                 Step("send", channels[q], "zs", TRUE)>>)
         \o CssSteps(id, channels, q + 1)

\* Receiver::receive and Sender::send: the zero sharing, then the
\* reconstruction
OnlineSteps(id, channels) ==
    <<Step("shares", id, "zs", FALSE)>> \o CssSteps(id, channels, 1) \o
    (IF id = 0
     THEN [q \in 1 .. (2 * Len(channels)) |->
             IF q % 2 = 1 THEN Step("receive", channels[(q + 1) \div 2], "rc", FALSE)
             ELSE Step("read", channels[q \div 2], "rc", TRUE)]
          \o <<Step("output", id, "rc", TRUE)>>
     ELSE <<Step("send", channels[1], "rc", FALSE)>>)

\* precomp, then the online call
Program(id, N) == PrecompSteps(id, Channels(id, N)) \o OnlineSteps(id, Channels(id, N))

\* secret_sharing_of_zero: nparties - 1 draws and their sum
secret_sharing_of_zero_unsummed(nparties, rng) ==
    Vec([i \in 1 .. nparties |-> IF i < nparties THEN GenFAt(rng, i - 1) ELSE 0])

secret_sharing_of_zero_last_draw(nparties, rng) ==
    Vec([i \in 1 .. nparties |->
           IF i < nparties THEN GenFAt(rng, i - 1) ELSE GenFAt(rng, nparties - 2)])

secret_sharing_of_zero(nparties, rng) ==
    Vec([i \in 1 .. nparties |->
           IF i < nparties THEN GenFAt(rng, i - 1)
           ELSE FSum([j \in 1 .. (nparties - 1) |-> GenFAt(rng, j - 1)])])

\* s[k][i], the k-th item's share for party i, for k = 0 .. ninputs - 1
AllShares(nparties, ninputs, rng) ==
    Vec([k \in 1 .. ninputs |->
           secret_sharing_of_zero(nparties, RngSkip(rng, (k - 1) * (nparties - 1)))])

\* the points programmed into an OPPRF: (x, s[k][other_id]) in the zero
\* sharing, (x, s_hat_sum[k]) in the reconstruction
PsiPoints(inputs, use, s, s_hat_sum, other_id) ==
    Vec([k \in 1 .. Len(inputs) |->
           <<inputs[k], IF use = "zs" THEN s[k][other_id + 1] ELSE s_hat_sum[k]>>])

AddShares_overwrite(s_hat_sum, s_hats) ==
    Vec([k \in 1 .. Len(s_hat_sum) |-> s_hats[k][2]])

\* s_hat_sum[k] += s_hats[k].1
AddShares(s_hat_sum, s_hats) ==
    Vec([k \in 1 .. Len(s_hat_sum) |->
           IF k <= Len(s_hats) THEN FAdd(s_hat_sum[k], s_hats[k][2]) ELSE s_hat_sum[k]])

FilterMapZero_tests_x(x, s) == IF x = 0 THEN <<x>> ELSE <<>>

\* the closure of filter_map: |(&x, s)| if s.is_zero() { Some(x) } else { None }
FilterMapZero(x, s) == IF s = 0 THEN <<x>> ELSE <<>>

\* inputs.iter().zip(s_hat_sum).filter_map(..).collect()
RECURSIVE Intersection(_, _, _)
Intersection(inputs, s_hat_sum, k) ==
    IF k > Len(inputs) \/ k > Len(s_hat_sum) THEN <<>>
    ELSE FilterMapZero(inputs[k], s_hat_sum[k]) \o Intersection(inputs, s_hat_sum, k + 1)


\* where a party keeps the OPPRF of a step: opprf_senders, opprf_receivers,
\* or the OPPRFs of the reconstruction
Slot(st) ==
    IF st.use = "rc" THEN "rc"
    ELSE IF st.op \in {"precomp_s", "send"} THEN "zs_s" ELSE "zs_r"

\* the role a step takes on its channel, as the history of the channel end
RoleOf(st) ==
    [role |-> IF st.op \in {"precomp_s", "send"} THEN "S" ELSE "R",
     use |-> st.use,
     online |-> st.op \in {"send", "receive"}]

PsiStart(N, n, kind, sets, rngs, seed) ==
    [N |-> N, n |-> n, kind |-> kind, sets |-> sets, seed |-> seed,
     pc |-> Vec([p \in 1 .. N |-> 1]),
     failed |-> Vec([p \in 1 .. N |-> FALSE]),
     rng |-> rngs,
     inst |-> Vec([p \in 1 .. N |->
                     [zs_s |-> Vec([q \in 1 .. N |-> <<>>]),
                      zs_r |-> Vec([q \in 1 .. N |-> <<>>]),
                      rc |-> Vec([q \in 1 .. N |-> <<>>])]]),
     s |-> Vec([p \in 1 .. N |-> <<>>]),
     s_hat_sum |-> Vec([p \in 1 .. N |-> <<>>]),
     s_hats |-> Vec([p \in 1 .. N |-> <<>>]),
     oprf_res |-> Vec([p \in 1 .. N |-> <<>>]),
     tries |-> Vec([p \in 1 .. N |-> [attempts |-> <<>>, last |-> "none"]]),
     chan |-> Vec([p \in 1 .. N |-> Vec([q \in 1 .. N |-> <<>>])]),
     log |-> Vec([p \in 1 .. N |-> Vec([q \in 1 .. N |-> <<>>])]),
     out |-> <<>>, done |-> FALSE]

\* the sets of the parties (the receiver's in any order), and the generators:
\* for two parties the zero-sharing draws range over the field, otherwise
\* the generators run from seeds
PsiInit ==
    /\ vole = Idle
    /\ slv = Idle
    /\ prf = Idle
    /\ mt = Idle
    /\ \E N \in 2 .. MaxParties, n \in 1 .. MaxSetSize :
          \E own \in InjectiveSeqs(n), others \in [1 .. (N - 1) -> IncreasingSeqs(n)] :
             \/ /\ N = 2
                /\ \E t0, t1 \in [1 .. n -> IF n = 1 THEN F ELSE YValues] :
                      psi = PsiStart(N, n, Vandelmonde, <<own>> \o others,
                                     <<NewRng(0, t0), NewRng(1, t1)>>, n)
             \/ \E kind \in {Vandelmonde} \cup (IF N = 2 THEN {Paxos} ELSE {}),
                   sd \in 0 .. (NumSeeds - 1) :
                   psi = PsiStart(N, n, kind, <<own>> \o others,
                                  Vec([p \in 1 .. N |-> NewRng(sd + p, <<>>)]), sd)

\* the step party p is at
CurStep(p) ==
    IF psi.failed[p + 1] \/ psi.pc[p + 1] > Len(Program(p, psi.N))
    THEN Step("end", p, "", FALSE)
    ELSE Program(p, psi.N)[psi.pc[p + 1]]

\* one VOLE between the OPPRF sender's precomp of p and the OPPRF receiver's
\* precomp of q on their channel: both calls return together
PsiPrecomp(p, q) ==
    /\ p # q
    /\ \E sp \in {CurStep(p)}, sq \in {CurStep(q)} :
          /\ sp.op = "precomp_s"
          /\ sp.them = q
          /\ sq.op = "precomp_r"
          /\ sq.them = p
          /\ \E corr \in {LpnCorrelation(psi.seed + psi.N * p + q
                                         + (IF sp.use = "rc" THEN psi.N * psi.N ELSE 0))} :
                \E snd \in {OprfSenderPrecomp(psi.kind, psi.n, corr)},
                   rcv \in {OprfReceiverPrecomp(psi.kind, psi.n, corr)} :
                   psi' = [psi EXCEPT !.inst[p + 1][Slot(sp)][q + 1] = snd,
                                      !.inst[q + 1][Slot(sq)][p + 1] = rcv,
                                      !.failed[p + 1] = snd.res # "ok",
                                      !.failed[q + 1] = rcv.res # "ok",
                                      !.pc[p + 1] = @ + 1,
                                      !.pc[q + 1] = @ + 1,
                                      !.log[p + 1][q + 1] = Append(@, RoleOf(sp)),
                                      !.log[q + 1][p + 1] = Append(@, RoleOf(sq))]
    /\ UNCHANGED <<vole, slv, prf, mt>>

\* conditional_secret_sharing up to its loop: the shares of zero
PsiShares(p) ==
    /\ CurStep(p).op = "shares"
    /\ \E sh \in {AllShares(psi.N, Len(psi.sets[p + 1]), psi.rng[p + 1])} :
          psi' = [psi EXCEPT !.s[p + 1] = sh,
                             !.s_hat_sum[p + 1] = Vec([k \in 1 .. Len(sh) |-> sh[k][p + 1]]),
                             !.rng[p + 1] = RngSkip(@, Len(sh) * (psi.N - 1)),
                             !.pc[p + 1] = @ + 1]
    /\ UNCHANGED <<vole, slv, prf, mt>>

\* sender.send of the zero sharing or of the reconstruction: blocks on the
\* peer's aux and vector
PsiSend(p) ==
    /\ \E st \in {CurStep(p)} :
          /\ st.op = "send"
          /\ AuxAndVecReady(psi.kind, psi.chan[st.them + 1][p + 1])
          /\ \E o \in {OpprfSenderSend(psi.inst[p + 1][Slot(st)][st.them + 1],
                                       PsiPoints(psi.sets[p + 1], st.use, psi.s[p + 1],
                                                 psi.s_hat_sum[p + 1], st.them),
                                       psi.rng[p + 1],
                                       psi.chan[st.them + 1][p + 1],
                                       psi.chan[p + 1][st.them + 1])} :
                psi' = [psi EXCEPT !.failed[p + 1] = o.res # "ok",
                                   !.pc[p + 1] = IF o.res = "ok" THEN @ + 1 ELSE @,
                                   !.rng[p + 1] = o.rng,
                                   !.tries[p + 1] = o.tries,
                                   !.chan[st.them + 1][p + 1] = o.in,
                                   !.chan[p + 1][st.them + 1] = o.out,
                                   !.s_hat_sum[p + 1] =
                                       IF o.res = "ok" /\ st.last
                                       THEN AddShares(@, psi.s_hats[p + 1]) ELSE @,
                                   !.log[p + 1][st.them + 1] = Append(@, RoleOf(st))]
    /\ UNCHANGED <<vole, slv, prf, mt>>

\* receiver.receive up to its writes
PsiReceiveWrite(p) ==
    /\ \E st \in {CurStep(p)} :
          /\ st.op = "receive"
          /\ \E o \in {OprfReceiverReceive(psi.inst[p + 1][Slot(st)][st.them + 1],
                                           psi.sets[p + 1], psi.rng[p + 1],
                                           psi.chan[p + 1][st.them + 1])} :
                psi' = [psi EXCEPT !.failed[p + 1] = o.res # "ok",
                                   !.pc[p + 1] = IF o.res = "ok" THEN @ + 1 ELSE @,
                                   !.rng[p + 1] = o.rng,
                                   !.tries[p + 1] = o.tries,
                                   !.chan[p + 1][st.them + 1] = o.out,
                                   !.oprf_res[p + 1] = o.result,
                                   !.log[p + 1][st.them + 1] = Append(@, RoleOf(st))]
    /\ UNCHANGED <<vole, slv, prf, mt>>

\* the rest of receiver.receive: blocks on the peer's aux and vector; the
\* shares are added when the iteration ends
PsiReceiveRead(p) ==
    /\ \E st \in {CurStep(p)} :
          /\ st.op = "read"
          /\ AuxAndVecReady(psi.kind, psi.chan[st.them + 1][p + 1])
          /\ \E o \in {OpprfReceiverFinish(psi.inst[p + 1][Slot(st)][st.them + 1],
                                           psi.oprf_res[p + 1],
                                           psi.chan[st.them + 1][p + 1])} :
                psi' = [psi EXCEPT !.chan[st.them + 1][p + 1] = o.in,
                                   !.s_hats[p + 1] = o.points,
                                   !.s_hat_sum[p + 1] =
                                       IF st.last THEN AddShares(@, o.points) ELSE @,
                                   !.pc[p + 1] = @ + 1]
    /\ UNCHANGED <<vole, slv, prf, mt>>

\* the end of Receiver::receive: the inputs whose sum is zero
PsiOutput(p) ==
    /\ CurStep(p).op = "output"
    /\ psi' = [psi EXCEPT !.out = Intersection(psi.sets[p + 1], psi.s_hat_sum[p + 1], 1),
                          !.done = TRUE,
                          !.pc[p + 1] = @ + 1]
    /\ UNCHANGED <<vole, slv, prf, mt>>

PsiNext ==
    \/ \E p, q \in 0 .. (psi.N - 1) : PsiPrecomp(p, q)
    \/ \E p \in 0 .. (psi.N - 1) : PsiShares(p)
    \/ \E p \in 0 .. (psi.N - 1) : PsiSend(p)
    \/ \E p \in 0 .. (psi.N - 1) : PsiReceiveWrite(p)
    \/ \E p \in 0 .. (psi.N - 1) : PsiReceiveRead(p)
    \/ \E p \in 0 .. (psi.N - 1) : PsiOutput(p)

SpecPsi == PsiInit /\ [][PsiNext]_vars

\* the elements of a list, the elements common to all parties, and the
\* receiver's inputs and final sums
Elems(xs) == {xs[k] : k \in 1 .. Len(xs)}
Common == {x \in Elems(psi.sets[1]) : \A p \in 1 .. psi.N : x \in Elems(psi.sets[p])}
ZeroSums == {k \in 1 .. Len(psi.sets[1]) : psi.s_hat_sum[1][k] = 0}
AllEnded == \A p \in 0 .. (psi.N - 1) : CurStep(p).op = "end" /\ ~psi.failed[p + 1]

\* the statement of C1 as the specification words it: the receiver's list,
\* as a set, is exactly the intersection of all the sets
C1_ExactIntersection == psi.done => Elems(psi.out) = Common

\* C1: MPSI correctness.  Once the receiver has returned, its list contains
\* every element common to all parties; an element of the list that is not
\* common is an input of the receiver whose final share sum is zero all the
\* same.
C1_IntersectionAndCoincidences ==
    psi.done =>
        /\ Common \subseteq Elems(psi.out)
        /\ \A x \in Elems(psi.out) \ Common :
              \E k \in ZeroSums : psi.sets[1][k] = x

\* three parties have finished: the list is the nonempty intersection, and
\* an input of the receiver that a sender lacks is left out
C1_Witness ==
    /\ psi.done
    /\ AllEnded
    /\ psi.N = MaxParties
    /\ Common # {}
    /\ Elems(psi.out) = Common
    /\ Elems(psi.sets[1]) # Common

\* C2: completeness.  Whatever the shares drawn, once the receiver has
\* returned, its final share_sum[k] is 0 at every input x_k that belongs to
\* every party's set.
C2_CommonSumsToZero ==
    psi.done =>
        \A k \in 1 .. Len(psi.sets[1]) :
            psi.sets[1][k] \in Common => psi.s_hat_sum[1][k] = 0

\* the receiver has returned with a common input whose shares, drawn by
\* every party, are not zero, and with another input whose sum is not zero
C2_Witness ==
    /\ psi.done
    /\ \E k \in 1 .. Len(psi.sets[1]) :
          /\ psi.sets[1][k] \in Common
          /\ psi.s_hat_sum[1][k] = 0
          /\ \A p \in 1 .. psi.N : \E i \in 1 .. psi.N :
                \E kp \in 1 .. Len(psi.sets[p]) :
                   psi.sets[p][kp] = psi.sets[1][k] /\ psi.s[p][kp][i] # 0
    /\ \E k \in 1 .. Len(psi.sets[1]) : psi.s_hat_sum[1][k] # 0

\* C3: the receiver's list is the sub-list of its inputs x_k whose final
\* share_sum[k] is zero, in input order: the m-th element of the list is the
\* input at the m-th index with a zero sum, and there are no others.
C3_OutputIsZeroSumSublist ==
    psi.done =>
        /\ Len(psi.out) = Cardinality(ZeroSums)
        /\ \A m \in 1 .. Len(psi.out) :
              \E k \in ZeroSums :
                 /\ Cardinality({k2 \in ZeroSums : k2 < k}) = m - 1
                 /\ psi.out[m] = psi.sets[1][k]

\* the receiver has returned its two inputs, the larger first, and in
\* another case one input out of two
C3_Witness ==
    /\ psi.done
    /\ Len(psi.sets[1]) = MaxSetSize
    /\ \/ /\ Len(psi.out) = 2
          /\ psi.out = psi.sets[1]
          /\ psi.out[1] > psi.out[2]
       \/ /\ Len(psi.out) = 1
          /\ psi.out[1] = psi.sets[1][2]
          /\ psi.s_hat_sum[1][1] # 0

\* C10: deadlock discipline.  For every pair i < j the k-th role either end
\* has taken on the shared channel is the complement of the k-th role of the
\* other end, in the same phase; and in precomp and in the online zero
\* sharing party i takes the sender's role before the receiver's, party j
\* the receiver's before the sender's.
C10_ComplementaryRoles ==
    \A i, j \in 0 .. (psi.N - 1) :
        i < j =>
            /\ \A k \in 1 .. Len(psi.log[i + 1][j + 1]) :
                  k <= Len(psi.log[j + 1][i + 1]) =>
                      /\ psi.log[i + 1][j + 1][k].role # psi.log[j + 1][i + 1][k].role
                      /\ psi.log[i + 1][j + 1][k].use = psi.log[j + 1][i + 1][k].use
                      /\ psi.log[i + 1][j + 1][k].online = psi.log[j + 1][i + 1][k].online
            /\ \A b \in 1 .. Len(psi.log[i + 1][j + 1]) :
                  (psi.log[i + 1][j + 1][b].use = "zs" /\ psi.log[i + 1][j + 1][b].role = "R")
                  => \E a \in 1 .. (b - 1) :
                        /\ psi.log[i + 1][j + 1][a].use = "zs"
                        /\ psi.log[i + 1][j + 1][a].role = "S"
                        /\ psi.log[i + 1][j + 1][a].online = psi.log[i + 1][j + 1][b].online
            /\ \A b \in 1 .. Len(psi.log[j + 1][i + 1]) :
                  (psi.log[j + 1][i + 1][b].use = "zs" /\ psi.log[j + 1][i + 1][b].role = "S")
                  => \E a \in 1 .. (b - 1) :
                        /\ psi.log[j + 1][i + 1][a].use = "zs"
                        /\ psi.log[j + 1][i + 1][a].role = "R"
                        /\ psi.log[j + 1][i + 1][a].online = psi.log[j + 1][i + 1][b].online

\* three parties have run to the end without a failure: every channel has
\* seen its precomp and online exchanges, the receiver's two more
C10_Witness ==
    /\ psi.N = MaxParties
    /\ AllEnded
    /\ Len(psi.log[1][2]) = 6
    /\ Len(psi.log[2][1]) = 6
    /\ Len(psi.log[2][3]) = 4
    /\ Len(psi.log[3][2]) = 4

\* C16: retry policy.  The last online OPRF receive or OPPRF send of a party
\* has made at most two encode attempts; a second attempt follows a failed
\* first one and uses the aux drawn from the generator after that failure;
\* when the last attempt has failed there were two and the party's call has
\* failed.
C16_TwoAttempts ==
    \A p \in 1 .. psi.N :
        /\ Len(psi.tries[p].attempts) <= 2
        /\ Len(psi.tries[p].attempts) = 2
           => /\ psi.tries[p].attempts[2].prev = "err"
              /\ psi.tries[p].attempts[2].at
                    >= psi.tries[p].attempts[1].at + (IF psi.kind = Paxos THEN 3 ELSE 0)
              /\ psi.tries[p].attempts[2].aux
                    = gen_aux(psi.kind,
                              [psi.rng[p] EXCEPT !.ctr = psi.tries[p].attempts[2].at]).aux
        /\ psi.tries[p].last = "err"
           => Len(psi.tries[p].attempts) = 2 /\ psi.failed[p]

\* one party's encoding has succeeded at its second attempt, with another
\* aux than the first, and the other party's has failed twice
C16_Witness ==
    /\ psi.kind = Paxos
    /\ \E p, q \in 1 .. psi.N :
          /\ Len(psi.tries[p].attempts) = 2
          /\ psi.tries[p].last = "ok"
          /\ psi.tries[p].attempts[1].aux # psi.tries[p].attempts[2].aux
          /\ ~psi.failed[p]
          /\ Len(psi.tries[q].attempts) = 2
          /\ psi.tries[q].last = "err"
          /\ psi.failed[q]

----------------------------------------------------------------------------
(* The control flow of the non-MT path alone, for more parties: every party *)
(* runs its program; a channel is the number of exchanges (an aux and a     *)
(* vector) written and not yet read; no call fails                          *)

MaxFlowParties == 5

FlowInit ==
    /\ vole = Idle
    /\ slv = Idle
    /\ prf = Idle
    /\ mt = Idle
    /\ \E N \in 2 .. MaxFlowParties :
          psi = [phase |-> "flow", N |-> N,
                 pc |-> Vec([p \in 1 .. N |-> 1]),
                 chan |-> Vec([p \in 1 .. N |-> Vec([q \in 1 .. N |-> 0])])]

\* the step party p is at
FlowStep(p) ==
    IF psi.pc[p + 1] > Len(Program(p, psi.N)) THEN Step("end", p, "", FALSE)
    ELSE Program(p, psi.N)[psi.pc[p + 1]]

\* the VOLE of a precomp: the two ends return together
FlowPrecomp(p, q) ==
    /\ p # q
    /\ \E sp \in {FlowStep(p)}, sq \in {FlowStep(q)} :
          /\ sp.op = "precomp_s"
          /\ sp.them = q
          /\ sq.op = "precomp_r"
          /\ sq.them = p
    /\ psi' = [psi EXCEPT !.pc[p + 1] = @ + 1, !.pc[q + 1] = @ + 1]
    /\ UNCHANGED <<vole, slv, prf, mt>>

\* the steps that touch no channel: the shares of zero, the output
FlowLocal(p) ==
    /\ FlowStep(p).op \in {"shares", "output"}
    /\ psi' = [psi EXCEPT !.pc[p + 1] = @ + 1]
    /\ UNCHANGED <<vole, slv, prf, mt>>

\* sender.send: reads the peer's aux and vector, writes its own
FlowSend(p) ==
    /\ \E st \in {FlowStep(p)} :
          /\ st.op = "send"
          /\ psi.chan[st.them + 1][p + 1] > 0
          /\ psi' = [psi EXCEPT !.chan[st.them + 1][p + 1] = @ - 1,
                                !.chan[p + 1][st.them + 1] = @ + 1,
                                !.pc[p + 1] = @ + 1]
    /\ UNCHANGED <<vole, slv, prf, mt>>

\* receiver.receive up to its writes
FlowReceiveWrite(p) ==
    /\ \E st \in {FlowStep(p)} :
          /\ st.op = "receive"
          /\ psi' = [psi EXCEPT !.chan[p + 1][st.them + 1] = @ + 1,
                                !.pc[p + 1] = @ + 1]
    /\ UNCHANGED <<vole, slv, prf, mt>>

\* the rest of receiver.receive: reads the peer's aux and vector
FlowReceiveRead(p) ==
    /\ \E st \in {FlowStep(p)} :
          /\ st.op = "read"
          /\ psi.chan[st.them + 1][p + 1] > 0
          /\ psi' = [psi EXCEPT !.chan[st.them + 1][p + 1] = @ - 1,
                                !.pc[p + 1] = @ + 1]
    /\ UNCHANGED <<vole, slv, prf, mt>>

\* the steps of party p
FlowParty(p) ==
    /\ p < psi.N
    /\ \/ \E q \in 0 .. (psi.N - 1) : FlowPrecomp(p, q) \/ FlowPrecomp(q, p)
       \/ FlowLocal(p)
       \/ FlowSend(p)
       \/ FlowReceiveWrite(p)
       \/ FlowReceiveRead(p)

FlowNext == \E p \in 0 .. (MaxFlowParties - 1) : FlowParty(p)

SpecFlow == FlowInit /\ [][FlowNext]_vars

\* every party is a thread or a process of its own: a party that can take
\* its next step eventually takes it
FairSpecFlow == SpecFlow /\ \A p \in 0 .. (MaxFlowParties - 1) : WF_vars(FlowParty(p))

\* party p has not returned
Unfinished(p) == FlowStep(p).op # "end"

\* party p waits for its peer: for the peer's aux and vector in an online
\* read, for the peer's matching precomp in the VOLE
BlockedOnRead(p) ==
    \E st \in {FlowStep(p)} :
       \/ /\ st.op \in {"send", "read"}
          /\ psi.chan[st.them + 1][p + 1] = 0
       \/ /\ st.op \in {"precomp_s", "precomp_r"}
          /\ \E sq \in {FlowStep(st.them)} :
                ~(sq.them = p /\ sq.op \in {"precomp_s", "precomp_r"} /\ sq.op # st.op)

FlowStuck ==
    /\ \E p \in 0 .. (psi.N - 1) : Unfinished(p)
    /\ \A p \in 0 .. (psi.N - 1) : Unfinished(p) => BlockedOnRead(p)

PrecompOver(p) == psi.pc[p + 1] > Len(PrecompSteps(p, Channels(p, psi.N)))

FlowEnded == \A p \in 0 .. (psi.N - 1) : ~Unfinished(p)

\* C25: deadlock freedom of the non-MT path.  With every party taking its
\* peers in ascending pid order on FIFO channels and no call failing, no
\* reachable state has every unfinished party blocked on a read; every
\* party's precomp returns, and then every party's send or receive returns
\* with nothing left unread.
C25_DeadlockFree ==
    /\ [](~FlowStuck)
    /\ <>(\A p \in 0 .. (psi.N - 1) : PrecompOver(p))
    /\ <>[](FlowEnded /\ \A p, q \in 1 .. psi.N : psi.chan[p][q] = 0)

\* five parties: the receiver is blocked in a read of the reconstruction on
\* a sender that is itself blocked in its zero sharing on another sender
C25_Witness ==
    /\ psi.phase = "flow"
    /\ psi.N = MaxFlowParties
    /\ BlockedOnRead(0)
    /\ FlowStep(0).op = "read"
    /\ FlowStep(0).use = "rc"
    /\ \E p \in 1 .. (psi.N - 1) :
          /\ FlowStep(0).them = p
          /\ FlowStep(p).use = "zs"
          /\ FlowStep(p).them # 0
          /\ FlowStep(p).op \in {"send", "read"}
          /\ BlockedOnRead(p)

----------------------------------------------------------------------------
(* One call of secret_sharing_of_zero, over every number of parties up to   *)
(* MaxShareParties and every outcome of its draws                           *)

MaxShareParties == 5

ZeroInit ==
    /\ vole = Idle
    /\ slv = Idle
    /\ prf = Idle
    /\ mt = Idle
    /\ \E nparties \in 2 .. MaxShareParties :
          \E draws \in [1 .. (nparties - 1) -> F] :
             psi = [phase |-> "zero", nparties |-> nparties, rng |-> NewRng(0, draws),
                    shares |-> <<>>]

ZeroShare ==
    /\ psi.phase = "zero"
    /\ psi' = [psi EXCEPT !.phase = "shared",
                          !.shares = secret_sharing_of_zero(psi.nparties, psi.rng),
                          !.rng = RngSkip(psi.rng, psi.nparties - 1)]
    /\ UNCHANGED <<vole, slv, prf, mt>>

ZeroNext == ZeroShare

SpecZero == ZeroInit /\ [][ZeroNext]_vars

\* C21: for every N >= 2 and every outcome of the N - 1 draws,
\* secret_sharing_of_zero(N) returns exactly N field elements, the draws in
\* order and then one more, whose sum in the characteristic-2 field is 0.
C21_SharesOfZero ==
    psi.phase = "shared" =>
        /\ Len(psi.shares) = psi.nparties
        /\ \A i \in 1 .. Len(psi.shares) : psi.shares[i] \in F
        /\ \A i \in 1 .. (psi.nparties - 1) : psi.shares[i] = psi.rng.tape[i]
        /\ FSum(psi.shares) = 0

\* shares for the largest number of parties, none of them zero and the last
\* one different from the last draw
C21_Witness ==
    /\ psi.phase = "shared"
    /\ psi.nparties = MaxShareParties
    /\ \A i \in 1 .. Len(psi.shares) : psi.shares[i] # 0
    /\ psi.shares[psi.nparties] # psi.shares[psi.nparties - 1]

----------------------------------------------------------------------------
(* Multithreaded MPSI (the _mt calls): a party's main thread makes four     *)
(* calls in turn, each spawning one thread per peer or working inline; a    *)
(* thread locks its channel, runs its exchange, reports its result on a     *)
(* queue and exits; the main thread collects the results.  The exchanges    *)
(* themselves are the OPPRF steps of the sections above, kept here only as  *)
(* blocking reads and writes that may fail.  One party, `me`, is modelled   *)
(* with all its channels and with failures; of every other party only the   *)
(* channel it shares with `me` is modelled.                                 *)

MaxFaults == 2

\* Party::precomp_mt, the reconstruction precomp of Receiver::precomp_mt and
\* Sender::precomp_mt, conditional_secret_sharing_mt, and the reconstruction
\* of receive_mt and send_mt
Calls_online_first == <<"css", "rc", "precomp", "precomp_rc">>

Calls == <<"precomp", "precomp_rc", "css", "rc">>

MtScript_sender_first(call, me, them, inline) ==
    IF call = "precomp" THEN <<"preS", "repS", "preR", "repR">>
    ELSE IF call = "precomp_rc"
    THEN (IF inline THEN <<"preS">> ELSE <<"preR", "repR">>)
    ELSE IF call = "css" THEN <<"send", "recvW", "recvR", "rep">>
    ELSE (IF inline THEN <<"send">> ELSE <<"recvW", "recvR", "rep">>)

\* what a per-peer thread does under its lock, in order; the inline script
\* is what a sender's main thread does itself on channels[0]
MtScript(call, me, them, inline) ==
    IF call = "precomp"
    THEN (IF me < them THEN <<"preS", "repS", "preR", "repR">>
          ELSE <<"preR", "repR", "preS", "repS">>)
    ELSE IF call = "precomp_rc"
    THEN (IF inline THEN <<"preS">> ELSE <<"preR", "repR">>)
    ELSE IF call = "css"
    THEN (IF me < them THEN <<"send", "recvW", "recvR", "rep">>
          ELSE <<"recvW", "recvR", "send", "rep">>)
    ELSE (IF inline THEN <<"send">> ELSE <<"recvW", "recvR", "rep">>)

\* the orders in which a caller may pass a list of channels
ChannelOrders(chans) ==
    {s \in [1 .. Len(chans) -> {chans[i] : i \in 1 .. Len(chans)}] :
        \A i, j \in 1 .. Len(chans) : i # j => s[i] # s[j]}

\* channels.sort_by_key(|(them, _)| *them)
sort_by_key(chans) ==
    CHOOSE s \in ChannelOrders(chans) : \A i, j \in 1 .. Len(chans) : i < j => s[i] < s[j]

\* the iterations of the zip of the channels with the stored roles that pass
\* assert!(other_id == si) before the first that does not
RECURSIVE MatchLen(_, _, _)
MatchLen(chans, stored, k) ==
    IF k > Len(chans) \/ chans[k] # stored[k] THEN k - 1
    ELSE MatchLen(chans, stored, k + 1)

\* the guard of the channel lives to the end of the thread's closure
GuardDropsAt_after_first(script) == 2

GuardDropsAt(script) == Len(script) + 1

\* `s?` on a collected result
ItemFails_never(item) == FALSE

ItemFails(item) == item.res = "err"

\* (0..channels.len()) and take(channels.len())
ResultsAwaited_one_less(chans) == Len(chans) - 1

ResultsAwaited_first_only(chans) == 1

ResultsAwaited(chans) == Len(chans)

\* recv(): the oldest result not yet taken
NextItem_latest(queue, got) == queue[Len(queue)]

NextItem(queue, got) == queue[got + 1]

SenderBails_never(me) == FALSE

\* Sender::precomp_mt: `if me == 0 { bail!(..) }`
SenderBails(me) == me = 0

NoThread == [st |-> "none", call |-> 0, pc |-> 1, res |-> "ok", inline |-> FALSE]

\* the operation thread t of party me for peer them is at
Op(t, me, them) ==
    IF t.st = "running" /\ t.pc <= Len(MtScript(Calls[t.call], me, them, t.inline))
    THEN MtScript(Calls[t.call], me, them, t.inline)[t.pc]
    ELSE "none"

\* zero sharing or reconstruction
Use(call) == IF call \in {1, 3} THEN "zs" ELSE "rc"

Ret(st, why, from) == [st |-> st, why |-> why, from |-> from]

MtStart(N, me, sender0, chans) ==
    [N |-> N, me |-> me, sender0 |-> sender0,
     chans |-> Vec([p \in 1 .. N |-> IF p - 1 = me THEN chans ELSE <<me>>]),
     call |-> Vec([p \in 1 .. N |-> 1]),
     stage |-> Vec([p \in 1 .. N |-> "idle"]),
     ret |-> Vec([p \in 1 .. N |-> Ret("run", "", p - 1)]),
     th |-> Vec([p \in 1 .. N |-> Vec([q \in 1 .. N |-> NoThread])]),
     lock |-> Vec([p \in 1 .. N |-> Vec([q \in 1 .. N |-> "free"])]),
     q1 |-> Vec([p \in 1 .. N |-> <<>>]),
     q2 |-> Vec([p \in 1 .. N |-> <<>>]),
     got |-> Vec([p \in 1 .. N |-> 0]),
     wire |-> Vec([p \in 1 .. N |-> Vec([q \in 1 .. N |-> <<>>])]),
     log |-> Vec([p \in 1 .. N |-> Vec([q \in 1 .. N |-> <<>>])]),
     did |-> Vec([p \in 1 .. N |-> {}]),
     fails |-> Vec([p \in 1 .. N |-> <<>>]),
     faults |-> 0]

\* party me with the channel list its caller passes to precomp_mt, in any
\* order; party 0 calls Receiver::precomp_mt, or Sender::precomp_mt by
\* mistake
MtInit ==
    /\ vole = Idle
    /\ slv = Idle
    /\ prf = Idle
    /\ psi = Idle
    /\ \E N \in 2 .. MaxParties :
          \E me \in 0 .. (N - 1) :
             \E sender0 \in (IF me = 0 THEN BOOLEAN ELSE {FALSE}),
                chans \in ChannelOrders(Channels(me, N)) :
                mt = MtStart(N, me, sender0, chans)

\* the call of party p is over: the next call, or the party's result
Finish(p) ==
    [mt EXCEPT !.call[p + 1] = @ + 1,
               !.stage[p + 1] = "idle",
               !.got[p + 1] = 0,
               !.ret[p + 1] = IF mt.call[p + 1] = Len(Calls) THEN Ret("ok", "", p) ELSE @]

\* the threads of a call: one per channel of `peers`, queues fresh, the
\* guards of the threads of the call before still to be dropped
Spawn(p, peers, chans, inline, stage) ==
    [mt EXCEPT !.chans[p + 1] = chans,
               !.th[p + 1] = Vec([q \in 1 .. mt.N |->
                                    IF (q - 1) \in peers
                                    THEN [st |-> "spawned", call |-> mt.call[p + 1], pc |-> 1,
                                          res |-> "ok", inline |-> inline]
                                    ELSE NoThread]),
               !.lock[p + 1] = Vec([q \in 1 .. mt.N |->
                                      IF mt.lock[p + 1][q] = "cur" THEN "old"
                                      ELSE mt.lock[p + 1][q]]),
               !.q1[p + 1] = <<>>,
               !.q2[p + 1] = <<>>,
               !.got[p + 1] = 0,
               !.stage[p + 1] = stage]

\* the main thread of party p enters its next call: a sender's precomp_mt
\* refuses the id 0; precomp_mt sorts the caller's list; the online calls
\* take the caller's list as it is and assert that it lines up with the
\* stored roles
MtCall(p) ==
    /\ mt.ret[p + 1].st = "run"
    /\ mt.stage[p + 1] = "idle"
    /\ \E c \in {Calls[mt.call[p + 1]]}, chans \in {mt.chans[p + 1]} :
          \/ /\ c = "precomp"
             /\ (p # 0 \/ mt.sender0) /\ SenderBails(p)
             /\ mt' = [mt EXCEPT !.ret[p + 1] = Ret("err", "bail", p)]
          \/ /\ c = "precomp"
             /\ ~((p # 0 \/ mt.sender0) /\ SenderBails(p))
             /\ mt' = Spawn(p, {chans[i] : i \in 1 .. Len(chans)}, sort_by_key(chans),
                            FALSE, "collect1")
          \/ /\ c = "precomp_rc"
             /\ mt' = IF p = 0
                      THEN Spawn(p, {chans[i] : i \in 1 .. Len(chans)}, chans, FALSE, "collect2")
                      ELSE IF p # mt.me /\ mt.me # 0
                      THEN Finish(p)
                      ELSE Spawn(p, {chans[1]}, chans, TRUE, "inline")
          \/ /\ c = "css"
             /\ \E order \in ChannelOrders(chans) :
                   \E k \in {MatchLen(order, sort_by_key(chans), 1)} :
                      mt' = IF k = Len(order)
                            THEN Spawn(p, {order[i] : i \in 1 .. k}, order, FALSE, "collect2")
                            ELSE [Spawn(p, {order[i] : i \in 1 .. k}, order, FALSE, "collect2")
                                     EXCEPT !.ret[p + 1] = Ret("panic", "assert", order[k + 1])]
          \/ /\ c = "rc"
             /\ mt' = IF p = 0
                      THEN Spawn(p, {chans[i] : i \in 1 .. Len(chans)}, chans, FALSE, "collect2")
                      ELSE IF p # mt.me /\ mt.me # 0
                      THEN Finish(p)
                      ELSE Spawn(p, {chans[1]}, chans, TRUE, "inline")
    /\ UNCHANGED <<vole, slv, prf, psi>>

\* ch.lock().unwrap(): blocks while the lock is held, panics if poisoned;
\* log keeps the calls whose threads have held the lock of the channel
MtLock(p, q) ==
    /\ mt.th[p + 1][q + 1].st = "spawned"
    /\ mt.lock[p + 1][q + 1] \in {"free", "poisoned"}
    /\ mt' = IF mt.lock[p + 1][q + 1] = "free"
             THEN [mt EXCEPT !.th[p + 1][q + 1].st = "running",
                             !.lock[p + 1][q + 1] = "cur",
                             !.log[p + 1][q + 1] = Append(@, Calls[mt.th[p + 1][q + 1].call])]
             ELSE [mt EXCEPT !.th[p + 1][q + 1].st = "dead",
                             !.ret[p + 1] = IF mt.th[p + 1][q + 1].inline
                                            THEN Ret("panic", "inline", q) ELSE @]
    /\ UNCHANGED <<vole, slv, prf, psi>>

\* the OPPRF sender's precomp of p and the OPPRF receiver's precomp of q, one
\* VOLE between them on their channel
MtPrecomp(p, q) ==
    /\ p # q
    /\ Op(mt.th[p + 1][q + 1], p, q) = "preS"
    /\ Op(mt.th[q + 1][p + 1], q, p) = "preR"
    /\ Use(mt.th[p + 1][q + 1].call) = Use(mt.th[q + 1][p + 1].call)
    /\ mt' = [mt EXCEPT !.th[p + 1][q + 1].pc = @ + 1,
                        !.th[p + 1][q + 1].res = "ok",
                        !.th[q + 1][p + 1].pc = @ + 1,
                        !.th[q + 1][p + 1].res = "ok",
                        !.did[p + 1] = @ \cup {<<q, "preS", Use(mt.th[p + 1][q + 1].call)>>},
                        !.did[q + 1] = @ \cup {<<p, "preR", Use(mt.th[q + 1][p + 1].call)>>}]
    /\ UNCHANGED <<vole, slv, prf, psi>>

\* one online step of a thread: receive writes then reads, send reads then
\* writes; a read blocks until the peer has written.  What is written is
\* marked with the call that wrote it
MtOnline(p, q) ==
    /\ p # q
    /\ \E op \in {Op(mt.th[p + 1][q + 1], p, q)} :
          /\ op \in {"send", "recvW", "recvR"}
          /\ op \in {"send", "recvR"} => mt.wire[q + 1][p + 1] # <<>>
          /\ mt' = [mt EXCEPT !.th[p + 1][q + 1].pc = @ + 1,
                              !.th[p + 1][q + 1].res = "ok",
                              !.wire[q + 1][p + 1] = IF op = "recvW" THEN @ ELSE Tail(@),
                              !.wire[p + 1][q + 1] =
                                  IF op = "recvR" THEN @
                                  ELSE Append(@, Calls[mt.th[p + 1][q + 1].call]),
                              !.did[p + 1] = @ \cup {<<q, op, Use(mt.th[p + 1][q + 1].call)>>}]
    /\ UNCHANGED <<vole, slv, prf, psi>>

\* an operation fails: with an error (a precomp thread goes on, an online
\* closure ends with that error), or by a panic, which poisons the lock
MtFault(p, q, kind) ==
    /\ mt.faults < MaxFaults
    /\ p = mt.me
    /\ p # q
    /\ \E t \in {mt.th[p + 1][q + 1]} :
          /\ Op(t, p, q) \in {"preS", "preR", "send", "recvW", "recvR"}
          /\ mt' = IF kind = "err"
                   THEN [mt EXCEPT !.th[p + 1][q + 1].res = "err",
                                   !.th[p + 1][q + 1].pc =
                                       IF t.call \in {3, 4} /\ ~t.inline
                                       THEN Len(MtScript(Calls[t.call], p, q, t.inline))
                                       ELSE @ + 1,
                                   !.fails[p + 1] = Append(@, [from |-> q, kind |-> kind, inline |-> t.inline]),
                                   !.faults = @ + 1]
                   ELSE [mt EXCEPT !.th[p + 1][q + 1].st = "dead",
                                   !.lock[p + 1][q + 1] = "poisoned",
                                   !.ret[p + 1] = IF t.inline THEN Ret("panic", "inline", q) ELSE @,
                                   !.fails[p + 1] = Append(@, [from |-> q, kind |-> kind, inline |-> t.inline]),
                                   !.faults = @ + 1]
    /\ UNCHANGED <<vole, slv, prf, psi>>

\* tx.send(result).unwrap(): panics once the main thread has dropped the
\* receiving end
MtReport(p, q) ==
    /\ \E t \in {mt.th[p + 1][q + 1]}, op \in {Op(mt.th[p + 1][q + 1], p, q)} :
          /\ op \in {"repS", "repR", "rep"}
          /\ mt' = IF mt.ret[p + 1].st = "run"
                   THEN [mt EXCEPT !.th[p + 1][q + 1].pc = @ + 1,
                                   !.q1[p + 1] = IF op = "repS" /\ t.call = 1
                                                 THEN Append(@, [from |-> q, res |-> t.res])
                                                 ELSE @,
                                   !.q2[p + 1] = IF op = "repS" /\ t.call = 1 THEN @
                                                 ELSE Append(@, [from |-> q, res |-> t.res])]
                   ELSE [mt EXCEPT !.th[p + 1][q + 1].st = "dead",
                                   !.lock[p + 1][q + 1] = "poisoned"]
    /\ UNCHANGED <<vole, slv, prf, psi>>

\* the end of a thread's closure drops the guard of its channel
MtExit(p, q) ==
    /\ \E t \in {mt.th[p + 1][q + 1]} :
          \/ /\ mt.lock[p + 1][q + 1] = "old"
             /\ mt' = [mt EXCEPT !.lock[p + 1][q + 1] = "free"]
          \/ /\ mt.lock[p + 1][q + 1] = "cur"
             /\ t.st = "running"
             /\ ~t.inline
             /\ t.pc >= GuardDropsAt(MtScript(Calls[t.call], p, q, t.inline))
             /\ mt' = [mt EXCEPT !.lock[p + 1][q + 1] = "free",
                                 !.th[p + 1][q + 1].st =
                                     IF t.pc > Len(MtScript(Calls[t.call], p, q, t.inline))
                                     THEN "exited" ELSE @]
    /\ UNCHANGED <<vole, slv, prf, psi>>

\* the main thread takes one result: an error ends the call with that
\* error; the sender queue of Party::precomp_mt is emptied before its
\* receiver queue; inline, the main thread's own step has returned
MtCollect(p) ==
    /\ mt.ret[p + 1].st = "run"
    /\ \/ /\ mt.stage[p + 1] = "collect1"
          /\ Len(mt.q1[p + 1]) > mt.got[p + 1]
          /\ \E item \in {NextItem(mt.q1[p + 1], mt.got[p + 1])} :
                mt' = IF ItemFails(item)
                      THEN [mt EXCEPT !.ret[p + 1] = Ret("err", "thread", item.from),
                                      !.got[p + 1] = @ + 1]
                      ELSE IF mt.got[p + 1] + 1 >= ResultsAwaited(mt.chans[p + 1])
                      THEN [mt EXCEPT !.stage[p + 1] = "collect2", !.got[p + 1] = 0]
                      ELSE [mt EXCEPT !.got[p + 1] = @ + 1]
       \/ /\ mt.stage[p + 1] = "collect2"
          /\ Len(mt.q2[p + 1]) > mt.got[p + 1]
          /\ \E item \in {NextItem(mt.q2[p + 1], mt.got[p + 1])} :
                mt' = IF ItemFails(item)
                      THEN [mt EXCEPT !.ret[p + 1] = Ret("err", "thread", item.from),
                                      !.got[p + 1] = @ + 1]
                      ELSE IF mt.got[p + 1] + 1 >= ResultsAwaited(mt.chans[p + 1])
                      THEN Finish(p)
                      ELSE [mt EXCEPT !.got[p + 1] = @ + 1]
       \/ /\ mt.stage[p + 1] = "inline"
          /\ \E q \in {mt.chans[p + 1][1]} :
                /\ mt.th[p + 1][q + 1].st = "running"
                /\ mt.th[p + 1][q + 1].pc > 1
                /\ mt' = IF mt.th[p + 1][q + 1].res = "err"
                         THEN [mt EXCEPT !.ret[p + 1] = Ret("err", "inline", q),
                                         !.th[p + 1][q + 1].st = "exited",
                                         !.lock[p + 1][q + 1] = "free"]
                         ELSE [Finish(p) EXCEPT !.th[p + 1][q + 1].st = "exited",
                                                !.lock[p + 1][q + 1] = "free"]
    /\ UNCHANGED <<vole, slv, prf, psi>>

MtNext ==
    \/ \E p \in 0 .. (mt.N - 1) : MtCall(p)
    \/ \E p, q \in 0 .. (mt.N - 1) : MtLock(p, q)
    \/ \E p, q \in 0 .. (mt.N - 1) : MtPrecomp(p, q)
    \/ \E p, q \in 0 .. (mt.N - 1) : MtOnline(p, q)
    \/ \E p, q \in 0 .. (mt.N - 1), kind \in {"err", "panic"} : MtFault(p, q, kind)
    \/ \E p, q \in 0 .. (mt.N - 1) : MtReport(p, q)
    \/ \E p, q \in 0 .. (mt.N - 1) : MtExit(p, q)
    \/ \E p \in 0 .. (mt.N - 1) : MtCollect(p)

SpecMt == MtInit /\ [][MtNext]_vars

\* every thread that can take a step takes it in the end, the main threads
\* too; failures are never forced
FairSpecMt ==
    /\ MtInit
    /\ [][MtNext]_vars
    /\ \A p \in 0 .. (MaxParties - 1) :
          /\ WF_vars(p < mt.N /\ MtCall(p))
          /\ WF_vars(p < mt.N /\ MtCollect(p))
          /\ \A q \in 0 .. (MaxParties - 1) :
                /\ WF_vars(p < mt.N /\ q < mt.N /\ MtLock(p, q))
                /\ WF_vars(p < mt.N /\ q < mt.N /\ MtPrecomp(p, q))
                /\ WF_vars(p < mt.N /\ q < mt.N /\ MtOnline(p, q))
                /\ WF_vars(p < mt.N /\ q < mt.N /\ MtReport(p, q))
                /\ WF_vars(p < mt.N /\ q < mt.N /\ MtExit(p, q))

\* the precomps party p has to complete on the channels modelled for it, and
\* the online steps it has made
AllPrecomps(p) ==
    {<<mt.chans[p + 1][i], "preS", "zs">> : i \in 1 .. Len(mt.chans[p + 1])}
    \cup {<<mt.chans[p + 1][i], "preR", "zs">> : i \in 1 .. Len(mt.chans[p + 1])}
    \cup (IF p = 0 THEN {<<mt.chans[p + 1][i], "preR", "rc">> : i \in 1 .. Len(mt.chans[p + 1])}
          ELSE IF p = mt.me \/ mt.me = 0 THEN {<<0, "preS", "rc">>}
          ELSE {})
OnlineDone(p) == {e \in mt.did[p + 1] : e[2] \in {"send", "recvW", "recvR"}}

\* C11: the offline-to-online boundary is a barrier.  A party that has
\* entered an online call, or has written or read an online message on any
\* channel, has completed every OPPRF-sender precomp and every
\* OPPRF-receiver precomp with every peer, the reconstruction's included.
C11_PrecompBarrier ==
    \A p \in 0 .. (mt.N - 1) :
        (mt.call[p + 1] >= 3 \/ OnlineDone(p) # {}) => AllPrecomps(p) \subseteq mt.did[p + 1]

\* a party with two peers has made its first online step on one channel
\* after its five (receiver: six) precomps
C11_Witness ==
    /\ mt.N = MaxParties
    /\ Cardinality(AllPrecomps(mt.me)) >= 5
    /\ Cardinality(OnlineDone(mt.me)) = 1
    /\ AllPrecomps(mt.me) \subseteq mt.did[mt.me + 1]

\* C12: channel locks.  A per-peer thread that has started its exchange and
\* has not finished it holds the lock of its channel, a thread that does not
\* hold it has made no step of its exchange, and while the thread of the
\* call before still holds the lock the next thread on that channel has not
\* started: at most one thread of a party is on a channel at a time and two
\* sessions never interleave.
C12_LockHeldThroughExchange ==
    \A p, q \in 0 .. (mt.N - 1) :
        /\ (mt.th[p + 1][q + 1].st = "running"
              /\ mt.th[p + 1][q + 1].pc
                    <= Len(MtScript(Calls[mt.th[p + 1][q + 1].call], p, q,
                                    mt.th[p + 1][q + 1].inline)))
           => mt.lock[p + 1][q + 1] = "cur"
        /\ mt.th[p + 1][q + 1].st = "spawned" => mt.th[p + 1][q + 1].pc = 1
        /\ mt.lock[p + 1][q + 1] = "old" => mt.th[p + 1][q + 1].st \in {"none", "spawned"}

\* one thread of the party is in the middle of its exchange under its lock,
\* and on the other channel the next call's thread waits for the guard of
\* the thread before it
C12_Witness ==
    /\ mt.N = MaxParties
    /\ \E q1, q2 \in 0 .. (mt.N - 1) :
          /\ q1 # q2
          /\ mt.th[mt.me + 1][q1 + 1].st = "running"
          /\ mt.th[mt.me + 1][q1 + 1].pc = 3
          /\ mt.lock[mt.me + 1][q1 + 1] = "cur"
          /\ mt.th[mt.me + 1][q2 + 1].st = "spawned"
          /\ mt.lock[mt.me + 1][q2 + 1] = "old"

ThreadFailed(p) ==
    \E i \in 1 .. Len(mt.fails[p + 1]) : ~mt.fails[p + 1][i].inline

\* C14: a failure of a per-peer thread is propagated.  Once a per-peer
\* thread of a party has failed, the party's call returns an error in the
\* end.
C14_FailurePropagates ==
    \A p \in 0 .. (MaxParties - 1) :
        (p < mt.N /\ ThreadFailed(p)) ~> (p < mt.N /\ mt.ret[p + 1].st = "err")

\* the failures of per-peer threads of party p, in the order of time
ThreadFails(p) == SelectSeq(mt.fails[p + 1], LAMBDA f : ~f.inline)

\* the statement of C15 as the specification words it: the error returned
\* is the error of the thread that failed first in time
C15_FirstInTime ==
    \A p \in 0 .. (mt.N - 1) :
        (mt.ret[p + 1].st = "err" /\ mt.ret[p + 1].why = "thread")
        => mt.ret[p + 1].from = ThreadFails(p)[1].from

\* C15: which error is returned.  The error a call returns is the first
\* failed result its main thread meets as it takes the results in the order
\* the threads reported them, the sender queue of Party::precomp_mt being
\* taken whole before its receiver queue.
C15_FirstCollected ==
    \A p \in 0 .. (mt.N - 1) :
        (mt.ret[p + 1].st = "err" /\ mt.ret[p + 1].why = "thread")
        => \E queue \in {IF mt.stage[p + 1] = "collect1" THEN mt.q1[p + 1] ELSE mt.q2[p + 1]} :
              /\ mt.got[p + 1] \in 1 .. Len(queue)
              /\ queue[mt.got[p + 1]].res = "err"
              /\ queue[mt.got[p + 1]].from = mt.ret[p + 1].from
              /\ \A i \in 1 .. (mt.got[p + 1] - 1) : queue[i].res = "ok"
              /\ (mt.stage[p + 1] = "collect2" /\ mt.call[p + 1] = 1)
                    => /\ Len(mt.q1[p + 1]) >= Len(mt.chans[p + 1])
                       /\ \A i \in 1 .. Len(mt.chans[p + 1]) : mt.q1[p + 1][i].res = "ok"

\* two per-peer threads of a party have failed with errors in one call, and
\* the error returned is the one of the thread that failed second
C15_Witness ==
    /\ mt.ret[mt.me + 1].st = "err"
    /\ mt.ret[mt.me + 1].why = "thread"
    /\ Len(ThreadFails(mt.me)) = 2
    /\ ThreadFails(mt.me)[1].kind = "err"
    /\ ThreadFails(mt.me)[2].kind = "err"
    /\ ThreadFails(mt.me)[1].from # ThreadFails(mt.me)[2].from
    /\ mt.ret[mt.me + 1].from = ThreadFails(mt.me)[2].from

\* C17: order of the channels.  Whenever a party has iterated over its
\* channels in a call, it has done so by increasing id, and no assertion on
\* the ids of the stored roles has failed.
C17_AscendingOrder ==
    \A p \in 0 .. (mt.N - 1) :
        (mt.stage[p + 1] # "idle" \/ mt.call[p + 1] > 1)
        => /\ \A i, j \in 1 .. Len(mt.chans[p + 1]) :
                 i < j => mt.chans[p + 1][i] < mt.chans[p + 1][j]
           /\ mt.ret[p + 1].why # "assert"

\* C18: a sender with id 0.  When party 0 calls Sender::precomp_mt the call
\* returns an error, and party 0 has started no thread, taken no lock and
\* made no step on any channel.
C18_SenderZeroBails ==
    mt.sender0 =>
        /\ mt.ret[1].st = "run" \/ (mt.ret[1].st = "err" /\ mt.ret[1].why = "bail")
        /\ mt.call[1] = 1
        /\ mt.stage[1] = "idle"
        /\ mt.did[1] = {}
        /\ \A q \in 1 .. mt.N : mt.th[1][q].st = "none" /\ mt.lock[1][q] = "free"
        /\ \A q \in 1 .. mt.N : mt.wire[1][q] = <<>>

\* the call of party 0 has returned its error while both senders have
\* their threads waiting for party 0
C18_Witness ==
    /\ mt.sender0
    /\ mt.N = MaxParties
    /\ mt.ret[1].st = "err"
    /\ \A q \in 2 .. mt.N : mt.th[q][1].st = "running"

\* the sessions of the channel between p and q, in order: the zero sharing's
\* precomp and online exchange, and with the receiver the reconstruction's
SessionsOf(p, q) ==
    IF p = 0 \/ q = 0 THEN <<"precomp", "precomp_rc", "css", "rc">>
    ELSE <<"precomp", "css">>

\* the operations of the session of call c that party p makes on its channel
\* with q, as entries of did
SessionOps(p, q, c) ==
    IF c = "precomp" THEN {<<q, "preS", "zs">>, <<q, "preR", "zs">>}
    ELSE IF c = "precomp_rc" THEN {<<q, IF p = 0 THEN "preR" ELSE "preS", "rc">>}
    ELSE IF c = "css" THEN {<<q, "send", "zs">>, <<q, "recvW", "zs">>, <<q, "recvR", "zs">>}
    ELSE IF p = 0 THEN {<<q, "recvW", "rc">>, <<q, "recvR", "rc">>}
    ELSE {<<q, "send", "rc">>}

\* C27: sessions on a channel.  At each end of a channel the threads that
\* have held its lock are those of the sessions in order (zero-sharing
\* precomp, reconstruction precomp, zero-sharing online, reconstruction
\* online with the receiver; the two zero-sharing sessions between senders),
\* the two ends agree on that order, a thread of a later session holds the
\* lock only after every operation of the earlier sessions on that channel
\* has been made, and what a thread reads was written in its own session.
C27_SessionsInOrder ==
    \A p, q \in 0 .. (mt.N - 1) :
        /\ IsPrefix(mt.log[p + 1][q + 1], SessionsOf(p, q))
        /\ \/ IsPrefix(mt.log[p + 1][q + 1], mt.log[q + 1][p + 1])
           \/ IsPrefix(mt.log[q + 1][p + 1], mt.log[p + 1][q + 1])
        /\ (mt.fails[p + 1] = <<>>)
           => \A i \in 1 .. (Len(mt.log[p + 1][q + 1]) - 1) :
                 SessionOps(p, q, mt.log[p + 1][q + 1][i]) \subseteq mt.did[p + 1]
        /\ (Op(mt.th[p + 1][q + 1], p, q) \in {"send", "recvR"} /\ mt.wire[q + 1][p + 1] # <<>>)
           => Head(mt.wire[q + 1][p + 1]) = Calls[mt.th[p + 1][q + 1].call]

\* the receiver's thread of the reconstruction holds the lock of a channel
\* on which the four sessions have been opened at both ends, and is about to
\* read what the sender wrote
C27_Witness ==
    /\ mt.me = 0
    /\ mt.N = MaxParties
    /\ \E q \in 1 .. (mt.N - 1) :
          /\ mt.log[1][q + 1] = <<"precomp", "precomp_rc", "css", "rc">>
          /\ mt.log[q + 1][1] = <<"precomp", "precomp_rc", "css", "rc">>
          /\ Op(mt.th[1][q + 1], 0, q) = "recvR"
          /\ mt.wire[q + 1][1] = <<"rc">>

----------------------------------------------------------------------------
(* The multithreaded calls when no exchange fails: party 0 is the receiver, *)
(* no operation fails, and every thread that can take a step takes it in    *)
(* the end                                                                  *)

QuietInit == MtInit /\ ~mt.sender0

QuietNext ==
    \/ \E p \in 0 .. (mt.N - 1) : MtCall(p)
    \/ \E p, q \in 0 .. (mt.N - 1) : MtLock(p, q)
    \/ \E p, q \in 0 .. (mt.N - 1) : MtPrecomp(p, q)
    \/ \E p, q \in 0 .. (mt.N - 1) : MtOnline(p, q)
    \/ \E p, q \in 0 .. (mt.N - 1) : MtReport(p, q)
    \/ \E p, q \in 0 .. (mt.N - 1) : MtExit(p, q)
    \/ \E p \in 0 .. (mt.N - 1) : MtCollect(p)

QuietSpecMt ==
    /\ QuietInit
    /\ [][QuietNext]_vars
    /\ \A p \in 0 .. (MaxParties - 1) :
          /\ WF_vars(p < mt.N /\ MtCall(p))
          /\ WF_vars(p < mt.N /\ MtCollect(p))
          /\ \A q \in 0 .. (MaxParties - 1) :
                /\ WF_vars(p < mt.N /\ q < mt.N /\ MtLock(p, q))
                /\ WF_vars(p < mt.N /\ q < mt.N /\ MtPrecomp(p, q))
                /\ WF_vars(p < mt.N /\ q < mt.N /\ MtOnline(p, q))
                /\ WF_vars(p < mt.N /\ q < mt.N /\ MtReport(p, q))
                /\ WF_vars(p < mt.N /\ q < mt.N /\ MtExit(p, q))

\* an online call was handed its channels in another order than precomp_mt
\* left them in, and an assertion on the ids has failed
AssertFailed == \E p \in 1 .. mt.N : mt.ret[p].why = "assert"

\* every call has returned Ok, every thread has left its closure, every lock
\* is free and nothing written is left unread
MtAllDone ==
    \A p \in 1 .. mt.N :
        /\ mt.ret[p].st = "ok"
        /\ \A q \in 1 .. mt.N :
              /\ mt.th[p][q].st \in {"none", "exited"}
              /\ mt.lock[p][q] = "free"
              /\ mt.wire[p][q] = <<>>

----------------------------------------------------------------------------
(* A sender's two calls and the channel list its caller passes to each:     *)
(* Sender::precomp then Sender::send, or precomp_mt then send_mt            *)

MaxRcParties == 4

Sequential == "seq"
Multithreaded == "mt"

RcInit ==
    /\ vole = Idle
    /\ slv = Idle
    /\ prf = Idle
    /\ mt = Idle
    /\ \E N \in 2 .. MaxRcParties, path \in {Sequential, Multithreaded} :
          \E me \in 1 .. (N - 1) :
             \E channels \in ChannelOrders(Channels(me, N)) :
                psi = [phase |-> "rc", N |-> N, me |-> me, path |-> path,
                       channels |-> channels, stored |-> <<>>, pc |-> "new",
                       rc_precomp |-> <<>>, rc_send |-> <<>>]

\* Sender::precomp: Party::precomp stores the roles in the order of the
\* list, then the reconstruction's precomp on channels[0]; precomp_mt: the
\* same after Party::precomp_mt has sorted the caller's list
RcPrecomp ==
    /\ psi.phase = "rc"
    /\ psi.pc = "new"
    /\ \E slice \in {IF psi.path = Multithreaded THEN sort_by_key(psi.channels)
                     ELSE psi.channels} :
          psi' = [psi EXCEPT
                    !.pc = "ready",
                    !.channels = slice,
                    !.stored = slice,
                    !.rc_precomp =
                        <<PrecompSteps(psi.me, slice)[Len(PrecompSteps(psi.me, slice))].them>>]
    /\ UNCHANGED <<vole, slv, prf, mt>>

\* Sender::send / send_mt on the list the caller passes to it: the zero
\* sharing asserts that the list lines up with the stored roles, then the
\* reconstruction's send on channels[0]
RcSend ==
    /\ psi.phase = "rc"
    /\ psi.pc = "ready"
    /\ \E channels \in ChannelOrders(psi.channels) :
          psi' = IF MatchLen(channels, psi.stored, 1) < Len(channels)
                 THEN [psi EXCEPT !.pc = "panic", !.channels = channels]
                 ELSE [psi EXCEPT
                         !.pc = "sent",
                         !.channels = channels,
                         !.rc_send =
                             <<OnlineSteps(psi.me, channels)
                                 [Len(OnlineSteps(psi.me, channels))].them>>]
    /\ UNCHANGED <<vole, slv, prf, mt>>

RcNext ==
    \/ RcPrecomp
    \/ RcSend

SpecRc == RcInit /\ [][RcNext]_vars

\* C31: the channel on which a sender runs its reconstruction precomp and its
\* reconstruction send is its channel to party 0, for every sender id and
\* every order in which the caller supplies the channel list.
C31_ReconstructionWithReceiver ==
    psi.phase = "rc" =>
        /\ psi.rc_precomp \in {<<>>, <<0>>}
        /\ psi.rc_send \in {<<>>, <<0>>}

\* what the code does ensure: the multithreaded calls reach party 0 whatever
\* the order, the sequential ones when party 0 comes first in the list
ReconstructionWithFirstChannel ==
    psi.phase = "rc" =>
        /\ psi.path = Multithreaded =>
              psi.rc_precomp \in {<<>>, <<0>>} /\ psi.rc_send \in {<<>>, <<0>>}
        /\ psi.pc = "sent" =>
              psi.rc_send = psi.rc_precomp /\ psi.rc_send = <<psi.stored[1]>>

----------------------------------------------------------------------------
(* The accumulation of s_hat_sum on both paths from the same OPPRF outputs: *)
(* the sequential loops add them channel by channel, the multithreaded      *)
(* calls as the threads deliver them                                        *)

MaxSumParties == 4

\* the pairs (x, y) one OPPRF receive returns for the inputs
SumOutputs(n, seed, q, use) ==
    Vec([k \in 1 .. n |->
           <<k, GenFAt(NewRng(seed, <<>>), (IF use = "zs" THEN 0 ELSE 7) + 3 * q + k)>>])

SumInit ==
    /\ vole = Idle
    /\ slv = Idle
    /\ prf = Idle
    /\ psi = Idle
    /\ \E N \in 2 .. MaxSumParties, n \in 1 .. MaxSetSize, seed \in 0 .. (NumSeeds - 1),
          me \in 0 .. 1 :
          mt = [phase |-> "sum", N |-> N, n |-> n, me |-> me, seed |-> seed,
                channels |-> Channels(me, N),
                own |-> Vec([k \in 1 .. n |-> GenFAt(NewRng(seed, <<>>), 20 + k)]),
                seq |-> [call |-> "css", at |-> 1, s_hat_sum |-> <<>>, css |-> <<>>],
                par |-> [call |-> "css", reported |-> {}, queue |-> <<>>, got |-> 0,
                         order |-> <<>>,
                         s_hat_sum |-> <<>>, css |-> <<>>]]

\* both paths start from s_hat_sum[k] = shares[self.id]
SumStart(sum) == IF sum = <<>> THEN mt.own ELSE sum

\* where a path goes when a call's loop is over: the receiver from the zero
\* sharing to the reconstruction, everything else to the end
SumAfter(call) == IF call = "css" /\ mt.me = 0 THEN "rc" ELSE "done"

\* one iteration of the loop of conditional_secret_sharing or of receive
SumSeqStep ==
    /\ mt.phase = "sum"
    /\ mt.seq.call # "done"
    /\ \E sum \in {AddShares(SumStart(mt.seq.s_hat_sum),
                             SumOutputs(mt.n, mt.seed, mt.channels[mt.seq.at],
                                        IF mt.seq.call = "css" THEN "zs" ELSE "rc"))} :
          mt' = IF mt.seq.at < Len(mt.channels)
                THEN [mt EXCEPT !.seq.at = @ + 1, !.seq.s_hat_sum = sum]
                ELSE [mt EXCEPT !.seq.at = 1, !.seq.s_hat_sum = sum,
                                !.seq.call = SumAfter(mt.seq.call),
                                !.seq.css = IF mt.seq.call = "css" THEN sum ELSE @]
    /\ UNCHANGED <<vole, slv, prf, psi>>

\* the thread of peer q sends its result on the call's queue
SumReport(q) ==
    /\ mt.phase = "sum"
    /\ mt.par.call # "done"
    /\ q \notin mt.par.reported
    /\ mt' = [mt EXCEPT !.par.reported = @ \cup {q},
                        !.par.order = Append(@, q),
                        !.par.queue = Append(@, SumOutputs(mt.n, mt.seed, q,
                                                           IF mt.par.call = "css" THEN "zs"
                                                           ELSE "rc"))]
    /\ UNCHANGED <<vole, slv, prf, psi>>

\* one iteration of `for s_hats in s_hats_rx.iter().take(channels.len())`
SumCollect ==
    /\ mt.phase = "sum"
    /\ mt.par.call # "done"
    /\ mt.par.got < Len(mt.par.queue)
    /\ \E sum \in {AddShares(SumStart(mt.par.s_hat_sum),
                             NextItem(mt.par.queue, mt.par.got))} :
          mt' = IF mt.par.got + 1 < ResultsAwaited(mt.channels)
                THEN [mt EXCEPT !.par.got = @ + 1, !.par.s_hat_sum = sum]
                ELSE [mt EXCEPT !.par.got = 0, !.par.s_hat_sum = sum,
                                !.par.queue = <<>>, !.par.reported = {},
                                !.par.call = SumAfter(mt.par.call),
                                !.par.css = IF mt.par.call = "css" THEN sum ELSE @]
    /\ UNCHANGED <<vole, slv, prf, psi>>

SumNext ==
    \/ SumSeqStep
    \/ \E q \in 0 .. (MaxSumParties - 1) : q \in {mt.channels[i] : i \in 1 .. Len(mt.channels)}
                                           /\ SumReport(q)
    \/ SumCollect

SpecSum == SumInit /\ [][SumNext]_vars

\* C32: from the same per-peer OPPRF outputs the multithreaded calls compute
\* the share sums the sequential code computes, after the zero sharing and
\* after the reconstruction, in whatever order the threads deliver their
\* results.
C32_SameSums ==
    mt.phase = "sum" =>
        /\ (mt.seq.css # <<>> /\ mt.par.css # <<>>) => mt.par.css = mt.seq.css
        /\ (mt.seq.call = "done" /\ mt.par.call = "done") =>
              mt.par.s_hat_sum = mt.seq.s_hat_sum

\* a receiver with three peers has finished both calls on both paths; the
\* threads of the zero sharing delivered in another order than the channels'
\* and the outputs of two peers differ
C32_Witness ==
    /\ mt.phase = "sum"
    /\ mt.me = 0
    /\ mt.N = MaxSumParties
    /\ mt.n = MaxSetSize
    /\ mt.seq.call = "done"
    /\ mt.par.call = "done"
    /\ mt.par.s_hat_sum = mt.seq.s_hat_sum
    /\ mt.par.css # mt.par.s_hat_sum
    /\ SubSeq(mt.par.order, 1, 3) = <<3, 1, 2>>
    /\ SubSeq(mt.par.order, 4, 6) = <<2, 3, 1>>
    /\ SumOutputs(mt.n, mt.seed, 1, "zs") # SumOutputs(mt.n, mt.seed, 2, "zs")
    /\ SumOutputs(mt.n, mt.seed, 1, "rc") # SumOutputs(mt.n, mt.seed, 3, "rc")

----------------------------------------------------------------------------
(* decode on a code vector P, on a share C = Delta * A + B, on the          *)
(* combination Delta * P + C, and on the key vector the OPRF sender builds  *)
(* from A' = P + A and B                                                    *)

LinCodeLen == 3

LinParams(kind) ==
    IF kind = Paxos THEN [l_size |-> 2, r_size |-> LinCodeLen - 2]
    ELSE [l_size |-> LinCodeLen, r_size |-> 0]

LinInit ==
    /\ vole = Idle
    /\ prf = Idle
    /\ psi = Idle
    /\ mt = Idle
    /\ \E kind \in SolverKinds, seed \in 0 .. (NumSeeds - 1), delta \in F, x \in F :
          \E vec_p \in [1 .. LinCodeLen -> F], vec_a \in [1 .. LinCodeLen -> F] :
             slv = [phase |-> "lin", kind |-> kind, params |-> LinParams(kind),
                    aux |-> gen_aux(kind, NewRng(seed, <<>>)).aux,
                    delta |-> delta, x |-> x, p |-> vec_p, vec_a |-> vec_a,
                    vec_b |-> Vec([i \in 1 .. LinCodeLen |->
                                     GenFAt(NewRng(seed, <<>>), 3 + i)]),
                    out |-> <<>>]

\* Delta * v + w, element by element
Combined(delta, v, w) == Vec([i \in 1 .. Len(v) |-> FAdd(FMul(delta, v[i]), w[i])])

\* the decode calls, the last on the key vector of SepOprfSenderWithVole::send
LinDecode ==
    /\ slv.phase = "lin"
    /\ slv.out = <<>>
    /\ \E c \in {Combined(slv.delta, slv.vec_a, slv.vec_b)},
          key \in {OprfKey(slv, slv.aux, MaskWithShare(slv.p, slv.vec_a), <<>>)} :
          slv' = [slv EXCEPT !.out =
                    [p |-> decode(slv.kind, slv.p, slv.x, slv.aux, slv.params),
                     c |-> decode(slv.kind, c, slv.x, slv.aux, slv.params),
                     sum |-> decode(slv.kind, Combined(slv.delta, slv.p, c), slv.x,
                                    slv.aux, slv.params),
                     key_res |-> key.res,
                     k |-> decode(slv.kind, key.fk.k, slv.x, slv.aux, slv.params)]]
    /\ UNCHANGED <<vole, prf, psi, mt>>

LinNext == LinDecode

SpecLin == LinInit /\ [][LinNext]_vars

\* C33: decode is linear in the code vector for both solvers:
\* decode(Delta * P + C, x) = Delta * decode(P, x) + decode(C, x); so the key
\* vector K = Delta * (P + A) + B of the OPRF sender decodes to
\* Delta * decode(P, x) + decode(C, x) for C = Delta * A + B, which is
\* Delta * H_F(x) + decode(C, x) wherever P decodes to H_F(x).
C33_DecodeLinear ==
    (slv.phase = "lin" /\ slv.out # <<>>) =>
        /\ slv.out.sum = FAdd(FMul(slv.delta, slv.out.p), slv.out.c)
        /\ slv.out.key_res = "ok"
        /\ slv.out.k = FAdd(FMul(slv.delta, slv.out.p), slv.out.c)
        /\ slv.out.p = hash_f(slv.x) =>
              slv.out.k = FAdd(FMul(slv.delta, hash_f(slv.x)), slv.out.c)

\* a PaXoS decode, and a Vandermonde one, of a vector that decodes to H_F(x),
\* with Delta neither 0 nor 1 and every term non-zero
C33_Witness ==
    /\ slv.phase = "lin"
    /\ slv.out # <<>>
    /\ slv.delta \notin {0, 1}
    /\ slv.x # 0
    /\ slv.out.p = hash_f(slv.x)
    /\ slv.out.p # 0
    /\ slv.out.c # 0
    /\ slv.out.k # 0
    /\ slv.out.k = FAdd(FMul(slv.delta, slv.out.p), slv.out.c)

----------------------------------------------------------------------------
(* gaussian_elimination on every system of up to MaxGaussRows constraints   *)
(* over up to MaxGaussCols unknowns, then adjust_vec_r on a drawn R         *)

MaxGaussRows == 3
MaxGaussCols == 3

GaussInit ==
    /\ vole = Idle
    /\ prf = Idle
    /\ psi = Idle
    /\ mt = Idle
    /\ \E n \in 1 .. MaxGaussRows, m \in 1 .. MaxGaussCols, seed \in 0 .. (NumSeeds - 1) :
          \E bits \in [1 .. n -> [1 .. m -> BOOLEAN]], targets \in [1 .. n -> F] :
             slv = [phase |-> "gauss", n |-> n, m |-> m,
                    matrix |-> Vec([k \in 1 .. n |-> <<Vec(bits[k]), targets[k]>>]),
                    vec_r |-> Vec([j \in 1 .. m |-> GenFAt(NewRng(seed, <<>>), j)]),
                    res |-> "", equations |-> <<>>, adjusted |-> FALSE]

\* gaussian_elimination(matrix)
GaussSolve ==
    /\ slv.phase = "gauss"
    /\ slv.res = ""
    /\ \E o \in {gaussian_elimination(slv.matrix)} :
          slv' = [slv EXCEPT !.res = o.res, !.equations = o.equations]
    /\ UNCHANGED <<vole, prf, psi, mt>>

\* adjust_vec_r(&mut vec_r, equations)
GaussAdjust ==
    /\ slv.phase = "gauss"
    /\ slv.res = "some"
    /\ ~slv.adjusted
    /\ slv' = [slv EXCEPT !.adjusted = TRUE,
                          !.vec_r = adjust_vec_r(slv.equations, slv.vec_r, 1)]
    /\ UNCHANGED <<vole, prf, psi, mt>>

GaussNext ==
    \/ GaussSolve
    \/ GaussAdjust

SpecGauss == GaussInit /\ [][GaussNext]_vars

\* vec_r satisfies the constraint <<bits, target>>
Satisfies(vec_r, row) ==
    FSum([j \in 1 .. Len(row[1]) |-> IF row[1][j] THEN vec_r[j] ELSE 0]) = row[2]

\* some assignment of R satisfies every row of the matrix
Consistent(matrix) ==
    \E vec_r \in [1 .. Len(matrix[1][1]) -> F] :
       \A k \in 1 .. Len(matrix) : Satisfies(vec_r, matrix[k])

\* the rows `rows` of the matrix added up: the bits over GF(2), the targets
\* in the field
RowSum(matrix, rows) ==
    <<Vec([j \in 1 .. Len(matrix[1][1]) |->
             Cardinality({k \in rows : matrix[k][1][j]}) % 2 = 1]),
      FSum([k \in 1 .. Len(matrix) |-> IF k \in rows THEN matrix[k][2] ELSE 0])>>

ZeroBits(bits) == \A j \in 1 .. Len(bits) : ~bits[j]

\* the bit rows are linearly dependent over GF(2)
Dependent(matrix) ==
    \E rows \in SUBSET (1 .. Len(matrix)) : rows # {} /\ ZeroBits(RowSum(matrix, rows)[1])

\* C34: whenever gaussian_elimination returns Some(equations), adjust_vec_r on
\* any initial R gives an R that satisfies every row of the original system.
C34_AdjustedSatisfiesOriginal ==
    (slv.phase = "gauss" /\ slv.adjusted) =>
        \A k \in 1 .. slv.n : Satisfies(slv.vec_r, slv.matrix[k])

\* three independent constraints on three unknowns, solved and adjusted, with
\* a row that has more than one bit set and targets that differ
C34_Witness ==
    /\ slv.phase = "gauss"
    /\ slv.adjusted
    /\ slv.n = MaxGaussRows
    /\ slv.m = MaxGaussCols
    /\ \E k \in 1 .. slv.n : Cardinality({j \in 1 .. slv.m : slv.matrix[k][1][j]}) > 1
    /\ \E k, q \in 1 .. slv.n : slv.matrix[k][2] # slv.matrix[q][2]
    /\ \A k \in 1 .. slv.n : Satisfies(slv.vec_r, slv.matrix[k])

\* C35 as stated: gaussian_elimination reports no solution only when no
\* assignment of R satisfies all the constraints, and solves every consistent
\* system of at most as many constraints as unknowns.
C35_NoneOnlyIfInconsistent ==
    (slv.phase = "gauss" /\ slv.res # "") =>
        /\ slv.res = "none" => ~Consistent(slv.matrix)
        /\ (slv.n <= slv.m /\ Consistent(slv.matrix)) => slv.res = "some"

\* C35, amended: gaussian_elimination reports no solution for every
\* inconsistent system, and for every consistent one whose bit rows are
\* linearly dependent; it solves every system of at most as many constraints
\* as unknowns whose bit rows are independent, and whatever it solves is
\* consistent.
C35_NoneIfInconsistentOrDependent ==
    (slv.phase = "gauss" /\ slv.res # "" /\ slv.n <= slv.m) =>
        /\ ~Consistent(slv.matrix) => slv.res = "none"
        /\ slv.res = "none" => Dependent(slv.matrix)
        /\ (Consistent(slv.matrix) /\ Dependent(slv.matrix)) => slv.res = "none"
        /\ (Consistent(slv.matrix) /\ ~Dependent(slv.matrix)) => slv.res = "some"

\* an inconsistent system was refused: two constraints with the same bits and
\* targets that differ
C35_Witness ==
    /\ slv.phase = "gauss"
    /\ slv.res = "none"
    /\ slv.n = 2
    /\ slv.m = MaxGaussCols
    /\ slv.matrix[1][1] = slv.matrix[2][1]
    /\ ~ZeroBits(slv.matrix[1][1])
    /\ slv.matrix[1][2] # slv.matrix[2][2]
    /\ ~Consistent(slv.matrix)

\* C36: on a matrix of n <= m rows gaussian_elimination returns None whenever
\* the bit rows are linearly dependent over GF(2), whatever the targets are,
\* in particular for an all-zero row and for two identical rows, and returns
\* Some whenever they are linearly independent.
C36_NoneIffDependent ==
    (slv.phase = "gauss" /\ slv.res # "" /\ slv.n <= slv.m) =>
        /\ slv.res \in {"none", "some"}
        /\ slv.res = "none" <=> Dependent(slv.matrix)
        /\ (\E k \in 1 .. slv.n : ZeroBits(slv.matrix[k][1])) => slv.res = "none"
        /\ (\E k, q \in 1 .. slv.n : k # q /\ slv.matrix[k][1] = slv.matrix[q][1])
              => slv.res = "none"

\* None for three constraints of which the third has the bits of the first
\* two added up and the target of a consistent system; no row is zero and no
\* two rows are alike
C36_Witness ==
    /\ slv.phase = "gauss"
    /\ slv.res = "none"
    /\ slv.n = MaxGaussRows
    /\ slv.m = MaxGaussCols
    /\ Consistent(slv.matrix)
    /\ \A k \in 1 .. slv.n : ~ZeroBits(slv.matrix[k][1])
    /\ \A k, q \in 1 .. slv.n : k # q => slv.matrix[k][1] # slv.matrix[q][1]
    /\ slv.matrix[3] = RowSum(slv.matrix, {1, 2})
    /\ slv.matrix[3][2] # 0

\* the bits with a 1 in the first column only
UnitRow(m) == Vec([j \in 1 .. m |-> j = 1])

\* C37: when gaussian_elimination returns Some for n rows, the result is in
\* reduced row-echelon form: exactly n triples (pivot, bits, value) with
\* strictly increasing pivots, each bit row with a 1 at its own pivot and a 0
\* at the pivot of every other row, bits and value being the sum of the same
\* rows of the input; a single row [1 0 0 | v] comes back unchanged with the
\* first column as its pivot (column 0 of the code is column 1 here).
C37_ReducedRowEchelon ==
    (slv.phase = "gauss" /\ slv.res = "some") =>
        LET eq == slv.equations IN
        /\ Len(eq) = slv.n
        /\ \A k \in 1 .. slv.n :
              /\ eq[k][1] \in 1 .. slv.m
              /\ Len(eq[k][2]) = slv.m
              /\ eq[k][2][eq[k][1]]
              /\ \A j \in 1 .. (eq[k][1] - 1) : ~eq[k][2][j]
              /\ \A q \in 1 .. slv.n : q # k => ~eq[q][2][eq[k][1]]
              /\ k < slv.n => eq[k][1] < eq[k + 1][1]
              /\ \E rows \in SUBSET (1 .. slv.n) :
                    rows # {} /\ <<eq[k][2], eq[k][3]>> = RowSum(slv.matrix, rows)
        /\ (slv.n = 1 /\ slv.matrix[1][1] = UnitRow(slv.m)) =>
              eq = <<<<1, slv.matrix[1][1], slv.matrix[1][2]>>>>

\* three rows solved where rows had to be swapped, a column skipped for no
\* row and rows above and below the pivot row reduced: no returned row is a
\* row of the input
C37_Witness ==
    /\ slv.phase = "gauss"
    /\ slv.res = "some"
    /\ slv.n = MaxGaussRows
    /\ slv.m = MaxGaussCols
    /\ ~slv.matrix[1][1][1]
    /\ \A k \in 1 .. slv.n : \A q \in 1 .. slv.n :
          <<slv.equations[k][2], slv.equations[k][3]>> # slv.matrix[q]
    /\ \E k, q \in 1 .. slv.n : slv.matrix[k][2] # slv.matrix[q][2]

\* the single row [1 0 0 | v] with v # 0, returned as it is
C37_SingleRow ==
    /\ slv.phase = "gauss"
    /\ slv.res = "some"
    /\ slv.n = 1
    /\ slv.m = MaxGaussCols
    /\ slv.matrix[1][1] = UnitRow(slv.m)
    /\ slv.matrix[1][2] # 0

----------------------------------------------------------------------------
(* PaxosSolver::encode with a slack small enough for the first DFS to find  *)
(* more constraints than R has cells                                        *)

\* the slack added to log n in r_size, in place of Lambda
EncSlack == 0

EncParams(n) == [l_size |-> 2 * n, r_size |-> NextPow2Log(n, 0) + EncSlack]

EncInit ==
    /\ vole = Idle
    /\ prf = Idle
    /\ psi = Idle
    /\ mt = Idle
    /\ \E n \in 1 .. MaxPoints :
          \E h1, h2 \in [1 .. n -> 0 .. (2 * n - 1)] :
             /\ FirstUseOrder(h1, h2, n)
             /\ \E rd \in [1 .. n -> 0 .. (RDigests - 1)], ys \in [1 .. n -> YValues] :
                  \E rng \in {NewRng(n % NumSeeds, <<KeyWithDigests(PaxosXs(n), h1),
                                                     KeyWithDigests(PaxosXs(n), h2),
                                                     KeyWithDigests(PaxosXs(n), rd)>>)} :
                     slv = [phase |-> "enc",
                            points |-> [i \in 1 .. n |-> <<PaxosXs(n)[i], ys[i]>>],
                            params |-> EncParams(n),
                            aux |-> PaxosGenAux(rng).aux, rng |-> PaxosGenAux(rng).rng,
                            res |-> "", why |-> "", p |-> <<>>, calls |-> <<>>,
                            x |-> 0, out |-> 0]

GaussCalls_unchecked(found, params) ==
    IF Len(found.constraints) > 0 THEN <<found.constraints>> ELSE <<>>

\* the matrices encode hands to gaussian_elimination, in order: none after
\* "too many constraints", none without a constraint
GaussCalls(found, params) ==
    IF Len(found.constraints) > params.r_size THEN <<>>
    ELSE IF Len(found.constraints) > 0 THEN <<found.constraints>>
    ELSE <<>>

\* PaxosSolver::encode(rng, points, aux, params)
EncEncode ==
    /\ slv.phase = "enc"
    /\ slv.res = ""
    /\ \E e \in {PaxosEncode(slv.rng, slv.points, slv.aux, slv.params)},
          found \in {dfs_to_find_constraints(
                        construct_cuckoo_graph(slv.points, slv.aux, slv.params),
                        slv.aux, slv.params)} :
          slv' = [slv EXCEPT !.res = e.res, !.why = e.why, !.p = e.p, !.rng = e.rng,
                             !.calls = GaussCalls(found, slv.params)]
    /\ UNCHANGED <<vole, prf, psi, mt>>

\* decode at a point of a code vector that encode returned
EncDecode ==
    /\ slv.phase = "enc"
    /\ slv.res = "ok"
    /\ \E k \in 1 .. Len(slv.points) :
          slv' = [slv EXCEPT !.phase = "dec", !.x = slv.points[k][1],
                             !.out = PaxosDecode(slv.p, slv.points[k][1], slv.aux, slv.params)]
    /\ UNCHANGED <<vole, prf, psi, mt>>

EncNext ==
    \/ EncEncode
    \/ EncDecode

SpecEnc == EncInit /\ [][EncNext]_vars

\* the constraints the first DFS collects on the points of the session
EncFound ==
    dfs_to_find_constraints(construct_cuckoo_graph(slv.points, slv.aux, slv.params),
                            slv.aux, slv.params)

\* C38: whenever the first DFS collects more than R constraints, encode
\* returns an error and no code vector; gaussian_elimination is never handed
\* more than R rows.
C38_TooManyConstraints ==
    (slv.phase = "enc" /\ slv.res # "") =>
        \A found \in {EncFound} :
           /\ Len(found.constraints) > slv.params.r_size =>
                 /\ slv.res = "err"
                 /\ slv.why = "too many constraints"
                 /\ slv.p = <<>>
                 /\ slv.calls = <<>>
           /\ \A c \in 1 .. Len(slv.calls) :
                 /\ Len(slv.calls[c]) <= slv.params.r_size
                 /\ check_matrix(slv.calls[c])

\* three points whose edges close three cycles, with two cells in R: encode
\* has failed, nothing was eliminated
C38_Witness ==
    /\ slv.phase = "enc"
    /\ slv.res = "err"
    /\ slv.why = "too many constraints"
    /\ Len(slv.points) = MaxPoints
    /\ slv.params.r_size = 2
    /\ Len(EncFound.constraints) = 3
    /\ slv.calls = <<>>

----------------------------------------------------------------------------
(* The two passes of encode over the graph of a solver session *)

\* the generator as encode received it: encode has drawn vec_l and vec_r
SlvDrawn == RngSkip(slv.rng, 0 - PaxosCodeLength(slv.params))

\* vec_r as the second DFS receives it
SlvVecR(found) ==
    LET vec_r == Vec([i \in 1 .. slv.params.r_size |->
                        GenFAt(SlvDrawn, slv.params.l_size + i - 1)])
    IN IF Len(found.constraints) > 0
       THEN adjust_vec_r(gaussian_elimination(found.constraints).equations, vec_r, 1)
       ELSE vec_r

\* the graph and vec_l after the second DFS of encode
SlvFilled(found, vec_r) ==
    dfs_to_calc_vec_l(found.graph, found.roots, 1, slv.aux[3], slv.params.r_size,
                      vec_r,
                      Vec([i \in 1 .. slv.params.l_size |-> GenFAt(SlvDrawn, i - 1)]))

\* the nodes of the cuckoo graph: those with an incident edge
SlvNodes == {SlvH1(k) : k \in 1 .. Len(slv.points)} \cup {SlvH2(k) : k \in 1 .. Len(slv.points)}

\* C39: the visit status only moves forward.  On every cuckoo graph the first
\* DFS takes every node with an incident edge and every edge from NotVisited
\* to VisitedOnce; when encode gets to the second DFS, that pass takes every
\* such node, and every edge that is not a back edge, from VisitedOnce to
\* VisitedTwice, never comes to a node that is VisitedTwice already, and the
\* panic "Unreachable" is not executed.
C39_VisitStatusForward ==
    (slv.phase = "encoded" /\ slv.kind = Paxos) =>
        \A g0 \in {construct_cuckoo_graph(slv.points, slv.aux, slv.params)},
           found \in {SlvFound} :
           /\ \A v \in 0 .. (slv.params.l_size - 1) :
                 /\ g0.nvisit[v + 1] = NotVisited
                 /\ found.graph.nvisit[v + 1]
                       = IF v \in SlvNodes THEN VisitedOnce ELSE NotVisited
           /\ \A k \in 1 .. Len(slv.points) :
                 /\ g0.evisit[k] = NotVisited
                 /\ found.graph.evisit[k] = VisitedOnce
           /\ slv.res # "panic"
           /\ slv.res = "ok" =>
                 \A vec_r \in {SlvVecR(found)} :
                 \A filled \in {SlvFilled(found, vec_r)} :
                    /\ ~filled.g.panicked
                    /\ \A v \in 0 .. (slv.params.l_size - 1) :
                          filled.g.nvisit[v + 1]
                             = IF v \in SlvNodes THEN VisitedTwice ELSE NotVisited
                    /\ \A k \in 1 .. Len(slv.points) :
                          filled.g.evisit[k]
                             = IF found.graph.back_edge[k] THEN VisitedOnce
                               ELSE VisitedTwice
                    /\ ExtendVec(filled.vec_l, vec_r, slv.params) = slv.p

\* both passes ran on a triangle: two tree edges, and a back edge that leads
\* the first DFS back to its root
C39_Witness ==
    /\ slv.phase = "encoded"
    /\ slv.kind = Paxos
    /\ slv.res = "ok"
    /\ Len(slv.points) = MaxPoints
    /\ Cardinality(SlvNodes) = 3
    /\ SlvSelfLoops = {}
    /\ \A k, q \in 1 .. MaxPoints : k # q => {SlvH1(k), SlvH2(k)} # {SlvH1(q), SlvH2(q)}
    /\ Cardinality({k \in 1 .. MaxPoints : SlvFound.graph.back_edge[k]}) = 1
    /\ \A v \in SlvNodes :
          SlvFilled(SlvFound, SlvVecR(SlvFound)).g.nvisit[v + 1] = VisitedTwice

\* the edges the first DFS marked as back edges, and the others: tree edges
BackEdges(found) == {k \in 1 .. Len(found.graph.points) : found.graph.back_edge[k]}
TreeEdges(found) == {k \in 1 .. Len(found.graph.points) : ~found.graph.back_edge[k]}

\* the nodes at which an odd number of ends of the edges in `edges` meet
OddNodes(edges) ==
    {v \in SlvNodes :
        (Cardinality({k \in edges : SlvH1(k) = v})
           + Cardinality({k \in edges : SlvH2(k) = v})) % 2 = 1}

\* the cycles that the edge k closes with the tree edges: k and the tree
\* path between its ends
Cycles(tree, k) ==
    {path \cup {k} : path \in {p \in SUBSET tree : OddNodes(p \cup {k}) = {}}}

\* C40: in the first DFS every edge is classified once, as a tree edge or as
\* a back edge; the tree edges form a spanning forest of the cuckoo graph,
\* one tree for each root; there is exactly one constraint for every back
\* edge, and it is the XOR of r(x) and the sum of y over the edges of the
\* cycle that the back edge closes.
C40_OneConstraintPerBackEdge ==
    (slv.phase = "encoded" /\ slv.kind = Paxos) =>
        \A found \in {SlvFound} :
        \A tree \in {TreeEdges(found)}, back \in {BackEdges(found)},
           rows \in {Vec([k \in 1 .. Len(slv.points) |-> SlvRow(k)])} :
           /\ \A k \in 1 .. Len(slv.points) : found.graph.evisit[k] = VisitedOnce
           /\ \A s \in SUBSET tree : s # {} => OddNodes(s) # {}
           /\ Cardinality(tree) + Len(found.roots) = Cardinality(SlvNodes)
           /\ \A k \in back : Cardinality(Cycles(tree, k)) = 1
           /\ Len(found.constraints) = Cardinality(back)
           /\ \E f \in [1 .. Len(found.constraints) -> back] :
                 /\ \A q1, q2 \in DOMAIN f : q1 # q2 => f[q1] # f[q2]
                 /\ \A q \in DOMAIN f :
                       \A cycle \in Cycles(tree, f[q]) :
                          found.constraints[q] = RowSum(rows, cycle)

\* a tree edge from the root, then two parallel edges: the second of them
\* closes a cycle that does not pass through the root, and the bits of the
\* edge from the root cancel in the constraint
C40_Witness ==
    /\ slv.phase = "encoded"
    /\ slv.kind = Paxos
    /\ Len(slv.points) = MaxPoints
    /\ TreeEdges(SlvFound) = {1, 2}
    /\ BackEdges(SlvFound) = {3}
    /\ Cycles({1, 2}, 3) = {{2, 3}}
    /\ \E j \in 1 .. slv.params.r_size : SlvRow(1)[1][j]
    /\ SlvRow(2)[1] # SlvRow(3)[1]
    /\ SlvFound.constraints = <<RowSum([k \in 1 .. MaxPoints |-> SlvRow(k)], {2, 3})>>

====
